---- MODULE Spec2Model ----
(***************************************************************************)
(* One CATS server connection (cats/server/conn.py) with the frames its    *)
(* peer sends, the handling tasks the reader loop spawns, the frame        *)
(* writers of cats/server/response.py and the input sub-dialog of          *)
(* cats/server/request.py.  One step of the model is one run of a          *)
(* coroutine between two suspension points of the asyncio loop.            *)
(***************************************************************************)
EXTENDS Integers, Sequences, FiniteSets, TLC

(* ------------------------------ bounds --------------------------------- *)
MaxMsgId == 2        \* message ids the peer uses: 1..MaxMsgId
MaxFrames == 2       \* frames the peer sends on the connection
MaxLen == 1          \* payload bytes of an echoed request / chunks of a stream
INPUT_LIMIT == 0     \* app.INPUT_LIMIT: BaseRequest.input evicts when more inputs than this are pending

(* ------------------------- program constants --------------------------- *)
MAX_SEND_CHUNK_SIZE == 33554432   \* 1 << 25
MIN_DOWNLOAD_SPEED == 1024
MAX_DOWNLOAD_SPEED == 33554432
input_timeout == 0                \* Server(input_timeout=None) -> input_timeout or 0

MsgIds == 1..MaxMsgId
\* DownloadSpeed values the peer sends: no limit, and both sides of each end of the accepted range
SpeedValues == {0, MIN_DOWNLOAD_SPEED - 1, MIN_DOWNLOAD_SPEED, MAX_DOWNLOAD_SPEED, MAX_DOWNLOAD_SPEED + 1}

IdleTimeouts == {0, 5}            \* idle_timeout or 0: the timer disabled, or a positive timeout

VARIABLES
    closed,          \* Connection._closed (the stream is closed with it)
    closedBy,        \* who made the effective close() call: 0 nobody, -1 Server.handle_stream, -2 the idle timer, t > 0 the done-callback of task t
    closeExc,        \* the exception the effective close() call was given
    close_runs,      \* how many close() calls went past the _closed test: sign_out and stream.close ran that often
    reader,          \* Connection.start: "running" | "raised"
    readerExc,       \* the exception Connection.start raised
    tasks,           \* the tick tasks, in the order the reader loop created them
    message_pool,    \* Connection._message_pool
    input_queue,     \* Connection.input_queue: message ids holding a Future
    has_input_deq,   \* the Connection carries the input_deq attribute request.py uses
    middleware,      \* the module the application's default_error_handler comes from
    input_deq,       \* conn.input_deq of request.py: the Input of each message id that has one
    is_sending,      \* Connection.is_sending
    download_speed,  \* Connection.download_speed
    wire,            \* every stream.write of the connection, in order
    idle_timeout,    \* app.idle_timeout
    idle_timer,      \* Connection._idle_timer holds a timer that has not fired
    idle_stale,      \* a read or write was made since that timer was armed
    events,          \* the events app.trigger was called with
    accept,          \* Server.handle_stream for the connection: its position, its stream, its handshake
    api,             \* the Api being filled by register, the Application built from it, a request dispatched
    stream,          \* one StreamResponse on its way: its generator, the blocks written, what the peer reads
    evt,             \* the listeners of one event of the Application, and whom the last trigger called
    srv,             \* the Server, its Application's channels and the connections it accepted
    rate,            \* the payload writes of the responses sent on a throttled connection, with their times
    codec,           \* one payload taken through Codec.encode and Codec.decode
    snd,             \* the calls of Connection.send under way, next to the message ids of the requests being handled
    rdr,             \* the frames the peer has put on the stream, and how far Connection.start has read them
    tmp,             \* the temporary files that exist, and the receive or send path that is under way
    inp              \* conn.input_deq with the futures and the timers of the calls of request.input()

connVars == <<closed, closedBy, closeExc, close_runs, reader, readerExc, tasks, message_pool,
              input_queue, has_input_deq, middleware, input_deq, is_sending, download_speed, wire,
              events, idle_timeout, idle_timer, idle_stale>>

(* The variables of the parts of the program that are followed on their    *)
(* own: all of them, and all but the one a part works on.                  *)
sideVars == <<accept, api, stream, evt, srv, rate, codec, snd, rdr, tmp, inp>>
notAccept == <<api, stream, evt, srv, rate, codec, snd, rdr, tmp, inp>>
notApi == <<accept, stream, evt, srv, rate, codec, snd, rdr, tmp, inp>>
notStream == <<accept, api, evt, srv, rate, codec, snd, rdr, tmp, inp>>
notEvt == <<accept, api, stream, srv, rate, codec, snd, rdr, tmp, inp>>
notSrv == <<accept, api, stream, evt, rate, codec, snd, rdr, tmp, inp>>
notRate == <<accept, api, stream, evt, srv, codec, snd, rdr, tmp, inp>>
notCodec == <<accept, api, stream, evt, srv, rate, snd, rdr, tmp, inp>>
notSnd == <<accept, api, stream, evt, srv, rate, codec, rdr, tmp, inp>>
notRdr == <<accept, api, stream, evt, srv, rate, codec, snd, tmp, inp>>
notTmp == <<accept, api, stream, evt, srv, rate, codec, snd, rdr, inp>>
notInp == <<accept, api, stream, evt, srv, rate, codec, snd, rdr, tmp>>

vars == <<connVars, sideVars>>

Range(s) == {s[i] : i \in DOMAIN s}

Tasks == DOMAIN tasks

(* ------------------------------ frames --------------------------------- *)
(* The frames a peer can put on the stream: the registered types of        *)
(* BaseRequest.__registry__ (0x00, 0x02, 0x05, 0x06, 0xFF); a stream       *)
(* request (0x01) is an instance of Request and is handled like one.       *)
Frame(kind, mid, hid, n, bad, val) ==
    [kind |-> kind, mid |-> mid, hid |-> hid, n |-> n, bad |-> bad, val |-> val]

PeerFrames ==
    {Frame("Request", m, h, 0, FALSE, 0) : m \in MsgIds, h \in {"no_response", "internal_requests", "set_speed"}}
    \cup {Frame("Request", m, "echo_handler", n, FALSE, 0) : m \in MsgIds, n \in 0..MaxLen}
    \cup {Frame("Request", m, "delayed_response", x[1], x[2], 0) :
              m \in MsgIds, x \in (0..MaxLen) \X BOOLEAN}
    \cup {Frame("InputRequest", m, "-", 0, FALSE, 0) : m \in MsgIds}
    \cup {Frame("CancelInput", m, "-", 0, FALSE, 0) : m \in MsgIds}
    \cup {Frame("DownloadSpeed", 0, "-", 0, FALSE, v) : v \in SpeedValues}
    \cup {Frame("Ping", 0, "-", 0, FALSE, 0)}

NewTask(fr) ==
    [kind |-> fr.kind, mid |-> fr.mid, hid |-> fr.hid, n |-> fr.n, bad |-> fr.bad, val |-> fr.val,
     pc |-> "new",        \* new | acquire | write | await | failed | done
     exc |-> "none",      \* the exception the task ended with
     invoked |-> FALSE,   \* the handler was called for this frame
     active |-> FALSE,    \* the handler coroutine has started and not returned
     fk |-> "none",       \* the frame being sent: Response | StreamResponse | InputResponse
     status |-> 0,        \* the Status header of the frame being sent
     raised |-> "none",   \* the exception the handler raised into default_error_handler
     fno |-> 0,           \* frames this task has started to send
     flen |-> 0,          \* payload bytes of the frame being sent (chunks of a stream)
     todo |-> <<>>,       \* the stream writes left of the frame being sent
     lock |-> FALSE,      \* inside `async with conn.lock_write()`
     after |-> "none",    \* what follows the send: "finish" handle_request, or "await" the input future
     fut |-> "none",      \* the Future of request.input(): none | pending | result | cancelled
     dup |-> FALSE,       \* the frame's message id was in the pool when its handling started
     hadInput |-> 0]      \* the task whose input was pending under the frame's message id when its handling started (0: none)

(* ------------------------------ writers -------------------------------- *)
ChunkSize(speed) == IF speed # 0 THEN speed ELSE MAX_SEND_CHUNK_SIZE

PayloadWrites(len, speed) ==
    IF len = 0 THEN 0 ELSE ((len - 1) \div ChunkSize(speed)) + 1

Repeat(s, k) == [i \in 1..(k * Len(s)) |-> s[((i - 1) % Len(s)) + 1]]

(* Response.send_to_conn writing its header twice.                         *)
ResponsePartsMutant(len, speed) ==
    <<"header", "header">> \o Repeat(<<"payload">>, PayloadWrites(len, speed))

(* Response.send_to_conn: the header with the headers, then the payload in *)
(* pieces of at most the chunk size.                                       *)
ResponseParts(len, speed) == <<"header">> \o Repeat(<<"payload">>, PayloadWrites(len, speed))

(* A StreamResponse: the header (with the length of the headers and the    *)
(* headers, three writes in a row), each chunk (its length, then its       *)
(* bytes), and the terminator; or the generator's failure in their place.  *)
StreamParts(n, bad) ==
    <<"header">> \o Repeat(<<"chunk">>, n) \o (IF bad THEN <<"raise">> ELSE <<"terminator">>)

WireEntry(t, r, part) ==
    [t |-> t, fno |-> r.fno, fk |-> r.fk, mid |-> r.mid, hid |-> r.hid, status |-> r.status,
     error |-> r.raised, part |-> part, lock |-> r.lock]

(* lock_write without its wait loop.                                       *)
LockFreeMutant == TRUE

(* lock_write: `while self.is_sending` lets a writer through.              *)
LockFree == ~is_sending

(* handle_request without its test of the pool.                            *)
InUseMutant(mid) == FALSE

(* handle_request: `message_id in self._message_pool`.                     *)
InUse(mid) == mid \in Range(message_pool)

(* What the history fields of a task record: whether the message id is in  *)
(* flight, and which task's input is pending under it.                     *)
InFlight(mid) == \E i \in DOMAIN message_pool : message_pool[i] = mid

PendingOwner(mid) ==
    IF \E e \in input_deq : e.mid = mid /\ tasks[e.owner].fut = "pending"
    THEN (CHOOSE e \in input_deq : e.mid = mid).owner
    ELSE 0

Remove(pool, mid) ==
    LET i == CHOOSE j \in DOMAIN pool : pool[j] = mid /\ \A k \in 1..(j - 1) : pool[k] # mid
    IN  SubSeq(pool, 1, i - 1) \o SubSeq(pool, i + 1, Len(pool))

(* Connection.reset_idle_timer: with idle_timeout > 0 the timer is         *)
(* cancelled and a new one is armed.                                       *)
ResetIdleTimer ==
    /\ idle_timer' = (idle_timeout > 0)
    /\ idle_stale' = FALSE

(* A stream read or write that no reset_idle_timer call goes with.         *)
NoResetIdleTimer ==
    /\ idle_timer' = idle_timer
    /\ idle_stale' = idle_timer

(* close without its test of _closed.                                      *)
AlreadyClosedMutant == FALSE

(* Connection.close: `if self._closed: return`.                            *)
AlreadyClosed == closed

(* Connection.close: the first call sets _closed, signs out and closes the *)
(* stream; every later call returns at once.                               *)
CloseBy(who, exc) ==
    IF AlreadyClosed
    THEN UNCHANGED <<closed, closedBy, closeExc, close_runs>>
    ELSE /\ closed' = TRUE /\ closedBy' = who /\ closeExc' = exc
         /\ close_runs' = close_runs + 1

(* Connection.close: the call that closes cancels the idle timer.          *)
CancelIdleTimer ==
    IF AlreadyClosed
    THEN UNCHANGED <<idle_timer, idle_stale>>
    ELSE idle_timer' = FALSE /\ idle_stale' = FALSE

(* The two default_error_handler of the repository: cats.middleware, which *)
(* app.py imports, raises CancelledError again; cats.server.middleware     *)
(* returns a Response with status 500 for it.                              *)
Middlewares == {"cats.middleware", "cats.server.middleware"}

(* Connection.__init__.  request.py keeps the pending inputs in            *)
(* conn.input_deq, which the __slots__ of Connection do not declare: the   *)
(* connection either is of a build that carries the attribute, or every    *)
(* access to it raises AttributeError.                                     *)
ConnInit ==
    /\ closed = FALSE
    /\ closedBy = 0
    /\ closeExc = "none"
    /\ close_runs = 0
    /\ reader = "running"
    /\ readerExc = "none"
    /\ tasks = <<>>
    /\ message_pool = <<>>
    /\ input_queue = {}
    /\ has_input_deq \in BOOLEAN
    /\ middleware \in Middlewares
    /\ input_deq = {}
    /\ is_sending = FALSE
    /\ download_speed = 0
    /\ wire = <<>>
    /\ events = {}
    /\ idle_timeout \in IdleTimeouts
    /\ idle_timer = (idle_timeout > 0)
    /\ idle_stale = FALSE

(* Server.handle_stream once it stands in `await conn.start()`: the        *)
(* connection is in the server's list and in the channel __all__.          *)
Served ==
    [configured |-> FALSE, matching |-> FALSE, W |-> 1, now |-> 0, presented |-> "silent",
     stage |-> "running", exc |-> "none", io |-> <<"read_api_version", "write_time">>,
     stream_closed |-> FALSE, in_connections |-> TRUE, in_all |-> TRUE, hs_events |-> {},
     verdict |-> "none"]

(* ------------------------------- the Api -------------------------------- *)
MaxVersion == 6      \* versions of handlers: 1..MaxVersion
MaxRegister == 3     \* calls of Api.register

HandlerIds == {1, 2}

(* The default of HandlerItem.version and HandlerItem.end_version.         *)
None == 0 - 1

Versions == {None} \cup (1..MaxVersion)

(* The dataclass HandlerItem; a callback stands for the name and the       *)
(* function of the item, which the dataclass compares together with the    *)
(* id and the versions.  Handlers of every shape are drawn for the id 2,   *)
(* and a few for the id 1 next to them.                                    *)
HandlerItem ==
    [id : {2}, callback : {"f", "g"}, version : Versions, end_version : Versions]
    \cup [id : {1}, callback : {"f"}, version : {None, 1, 2}, end_version : {None, 2}]

NoItem == [id |-> 0, callback |-> "-", version |-> None, end_version |-> None]

(* Api.__init__: no handler is registered; no Application is built yet.    *)
ApiStart ==
    [handlers |-> [i \in HandlerIds |-> <<>>], calls |-> 0, arg |-> NoItem, result |-> "none",
     stage |-> "registering", handler_id |-> 0, api_version |-> 0, exc |-> "none",
     fn |-> "-", invoked |-> FALSE, closed |-> FALSE]

(* ------------------------- a StreamResponse ----------------------------- *)
MaxYields == 2       \* chunks the generator of a StreamResponse yields

(* No StreamResponse is followed.                                          *)
NoStream ==
    [items |-> <<>>, speed |-> 0, request_offset |-> None, offset0 |-> 0, compression |-> "none",
     stage |-> "idle",
     pieces |-> <<>>, offset |-> 0, written |-> <<>>, blocks |-> <<>>, received |-> <<>>,
     read |-> 0]

MaxListeners == 3    \* listeners registered for the event

(* The callbacks given to add_event_listener: f and g are functions that   *)
(* return None, raises is a function that raises, coroutine is an          *)
(* `async def` function.                                                   *)
Callbacks == {"f", "g", "raises", "coroutine"}

NoEvt == [listeners |-> <<>>, called |-> <<>>, awaited |-> {}, raised |-> FALSE, stage |-> "idle"]

MaxResponses == 2    \* responses sent back to back on the throttled connection
MaxTime == 8         \* the clock stops here, in ticks

(* Time is counted in ticks of half a second.                              *)
TicksPerSecond == 2

(* A connection whose download_speed is set and that has sent nothing.     *)
RateStart ==
    [speed |-> MIN_DOWNLOAD_SPEED,   \* conn.download_speed
     queue |-> <<>>,                 \* _data_len of the responses still to send
     stage |-> "idle",               \* idle | loop (inside _write_to_stream)
     left |-> 0,                     \* left
     first |-> TRUE,                 \* the sleeper has not been resumed yet
     start |-> 0,                    \* start of the sleeper
     now |-> 0,                      \* datetime.now()
     slept |-> <<>>,                 \* what the sleeper of the current response has yielded
     log |-> <<>>]                   \* the payload writes: time and bytes

(* ------------------------------- codecs --------------------------------- *)
MaxBytes == 2        \* bytes of a bytes payload and of each file
MaxFiles == 2        \* files of a files payload

T_BYTE == 0
T_JSON == 1
T_FILE == 2

(* A payload: bytes, a JSON value (as ujson sees it: null, true, a number, *)
(* an empty object, or a string of characters), or files, each with its    *)
(* key, its size and its bytes, given in one of the forms of FILE_TYPES.   *)
NoPayload == [kind |-> "none", bytes |-> <<>>, json |-> <<>>, form |-> "-", files |-> <<>>]

(* What an encoder returns: the bytes, the JSON text, or the file made of  *)
(* a header of hl bytes with one node per file, the separator and the data.*)
NoEncoded ==
    [error |-> "none", type_id |-> None, bytes |-> <<>>, text |-> <<>>, hl |-> 0,
     header |-> <<>>, data |-> <<>>]

(* What a decoder returns.                                                 *)
NoDecoded == [error |-> "none", payload |-> NoPayload]

(* No payload is followed.                                                 *)
CodecStart ==
    [stage |-> "idle", payload |-> NoPayload, hl |-> 0, from |-> "buff",
     encoded |-> NoEncoded, type_id |-> None, decoded |-> NoDecoded]

(* --------------------------- Connection.send ---------------------------- *)
MaxSends == 2        \* calls of Connection.send that are under way at once

(* The bounds of randint in _get_free_message_id.                          *)
ID_LOW == 17783
ID_HIGH == 35565

(* Nothing is sent and no request is handled.                              *)
SendStart ==
    [pool |-> {},       \* _message_pool
     out |-> <<>>,      \* the responses of the calls of send that have not returned
     seen |-> {}]       \* _message_pool as each of them found it

(* ------------------------- reading the frames --------------------------- *)
MaxQueue == 2        \* frames the peer has put on the stream

(* Connection.MAX_PLAIN_DATA_SIZE, 1 << 24.                                *)
MAX_PLAIN_DATA_SIZE == 16777216

(* The reader has read nothing and the peer has sent nothing.              *)
ReaderStart ==
    [queue |-> <<>>,        \* the frames on the stream, in arrival order
     pos |-> 1,             \* the frame the reader is at
     stage |-> "idle",      \* idle | type | head | headers | payload | chunks | raised
     left |-> 0,            \* left of recv_data, or of the chunk being read
     chunk |-> 0,           \* chunks of a StreamRequest read so far
     data_len |-> 0,        \* data_len of StreamRequest.recv_data
     exc |-> "none",        \* what Connection.start raised
     started |-> <<>>,      \* the frames whose first byte was read, in that order
     consumed |-> <<>>,     \* the frames whose last byte was read, in that order
     tasks |-> <<>>]        \* the frame of every task created, in creation order

(* --------------------------- temporary files ---------------------------- *)
MaxPaths == 2        \* receive and send paths followed one after the other
MaxChunks == 2       \* chunks of a StreamRequest

(* No path has run and no temporary file exists.                           *)
FilesStart ==
    [path |-> "none",      \* none | basic | stream | send
     no |-> 0,             \* the number of the path
     stage |-> "ended",    \* where the path stands
     chunks |-> 0,         \* chunks of the StreamRequest read so far
     spilled |-> FALSE,    \* the StreamRequest has grown above MAX_PLAIN_DATA_SIZE
     exc |-> "none",       \* the exception the path ended with
     files |-> {},         \* the temporary files that exist
     outputs |-> {}]       \* the files of the files payloads that were decoded

(* ---------------------------- request.input ----------------------------- *)
MaxInputs == 3       \* calls of request.input() on the connection

(* No call of request.input() was made.                                    *)
InputStart ==
    [deq |-> {},          \* conn.input_deq: the Input of each message id that has one
     fut |-> <<>>,        \* the Future of each call: pending | cancelled | rejected | failed
     armed |-> {},        \* the calls whose Input has a timer that has not fired
     last |-> [op |-> "none", mid |-> 0, call |-> 0, outcome |-> "none", evicted |-> 0]]

MaxConns == 2        \* connections the server accepts

Conns == 1..MaxConns

(* Connection._identity: None, or an Identity with model_name and id.      *)
NoIdentity == [model_name |-> "-", id |-> 0]

Identities ==
    {[model_name |-> "A", id |-> 1], [model_name |-> "A", id |-> 2]}

(* f'model_{identity.model_name}' and f'{model_group}:{identity.id}'.      *)
model_group(identity) == "model_" \o identity.model_name

auth_group(identity) == model_group(identity) \o ":" \o ToString(identity.id)

(* The channel names in use: __all__, the channels of the identities, and  *)
(* one channel handlers attach connections to.                             *)
Channels ==
    {"__all__", "room"} \cup {model_group(i) : i \in Identities} \cup {auth_group(i) : i \in Identities}

(* Server.__init__ and Application.__init__: no connection, no channel.    *)
ServerStart ==
    [conn |-> [c \in Conns |-> [stage |-> "none",      \* none | handshake | serving | ended
                                closed |-> FALSE,      \* Connection._closed
                                identity |-> NoIdentity]],
     channels |-> [n \in Channels |-> <<>>],           \* Application._channels
     connections |-> <<>>,                             \* Server.connections
     stopped |-> FALSE,                                \* TCPServer.stop() was called
     shutdown |-> "none",                              \* Server.shutdown: none | raised | returned
     event |-> "none",                                 \* trigger(ON_SERVER_SHUTDOWN): none | pending | fired
     registered |-> {},                                \* the connections of the list when shutdown was called
     last |-> "none"]                                  \* the call just made: attach | attach_again | detach | detach_absent | shutdown

Init ==
    /\ ConnInit
    /\ accept = Served
    /\ api = ApiStart
    /\ stream = NoStream
    /\ evt = NoEvt
    /\ srv = ServerStart
    /\ rate = RateStart
    /\ codec = CodecStart
    /\ snd = SendStart
    /\ rdr = ReaderStart
    /\ tmp = FilesStart
    /\ inp = InputStart

(* ---------------------------- the reader ------------------------------- *)
RecvFrameMutant ==
    /\ reader = "running"
    /\ ~closed
    /\ \A t \in Tasks : tasks[t].pc = "done"
    /\ Len(tasks) < MaxFrames
    /\ \E fr \in PeerFrames : tasks' = Append(tasks, NewTask(fr))
    /\ ResetIdleTimer
    /\ UNCHANGED <<closed, closedBy, closeExc, close_runs, reader, readerExc, message_pool,
                   input_queue, has_input_deq, middleware, input_deq, is_sending, download_speed, wire,
                   events, idle_timeout, sideVars>>

(* Connection.start / Connection.recv: one registered frame is read and a  *)
(* task is created for tick(request); the loop then waits in the next read. *)
RecvFrame ==
    /\ reader = "running"
    /\ ~closed
    /\ Len(tasks) < MaxFrames
    /\ \E fr \in PeerFrames : tasks' = Append(tasks, NewTask(fr))
    /\ ResetIdleTimer
    /\ UNCHANGED <<closed, closedBy, closeExc, close_runs, reader, readerExc, message_pool,
                   input_queue, has_input_deq, middleware, input_deq, is_sending, download_speed, wire,
                   events, idle_timeout, sideVars>>

(* Server.handle_stream, `except Exception as err`: conn.close(exc=err) is  *)
(* called and closes the connection; its result, None, is then awaited,    *)
(* which raises TypeError, so stream.close(err) is skipped.  No event is   *)
(* triggered on this path.                                                 *)
HandleStreamExcept(err) ==
    /\ reader' = "raised"
    /\ readerExc' = err
    /\ CloseBy(-1, err)
    /\ CancelIdleTimer

(* Connection.recv: the discriminator byte is not in the registry.         *)
RecvUnknown ==
    /\ reader = "running"
    /\ ~closed
    /\ HandleStreamExcept("ProtocolError")
    /\ UNCHANGED <<tasks, message_pool, input_queue, has_input_deq, middleware, input_deq, is_sending,
                   download_speed, wire, events, idle_timeout, sideVars>>

(* The read the loop waits in fails once the stream is closed.             *)
ReaderClosed ==
    /\ reader = "running"
    /\ closed
    /\ HandleStreamExcept("StreamClosedError")
    /\ UNCHANGED <<tasks, message_pool, input_queue, has_input_deq, middleware, input_deq, is_sending,
                   download_speed, wire, events, idle_timeout, sideVars>>

(* ------------------------------- tick ---------------------------------- *)
(* tick without its test of the limit.                                     *)
ValidSpeedMutant(limit) == TRUE

(* tick: `if not limit or 1024 <= limit <= 33_554_432`.                    *)
ValidSpeed(limit) == limit = 0 \/ (MIN_DOWNLOAD_SPEED <= limit /\ limit <= MAX_DOWNLOAD_SPEED)

DeqKeys == {e.mid : e \in input_deq}

Deq(m) == CHOOSE e \in input_deq : e.mid = m

Min(S) == CHOOSE x \in S : \A y \in S : x <= y

(* Connection.tick, request.type_id == 5.                                  *)
TickDownloadSpeed(t) ==
    /\ tasks[t].pc = "new"
    /\ tasks[t].kind = "DownloadSpeed"
    /\ download_speed' = IF ValidSpeed(tasks[t].val) THEN tasks[t].val ELSE download_speed
    /\ tasks' = [tasks EXCEPT ![t].pc = "done"]
    /\ UNCHANGED <<closed, closedBy, closeExc, close_runs, reader, readerExc, message_pool,
                   input_queue, has_input_deq, middleware, input_deq, is_sending, wire, events,
                   idle_timeout, idle_timer, idle_stale, sideVars>>

(* Connection.tick, the else branch: a CancelInput or a Ping is neither a  *)
(* Request nor an InputRequest, so ProtocolError('Unsupported request').   *)
TickUnsupported(t) ==
    /\ tasks[t].pc = "new"
    /\ tasks[t].kind \in {"CancelInput", "Ping"}
    /\ tasks' = [tasks EXCEPT ![t].pc = "failed", ![t].exc = "ProtocolError",
                              ![t].hadInput = IF tasks[t].kind = "CancelInput"
                                              THEN PendingOwner(tasks[t].mid) ELSE 0]
    /\ UNCHANGED <<closed, closedBy, closeExc, close_runs, reader, readerExc, message_pool,
                   input_queue, has_input_deq, middleware, input_deq, is_sending, download_speed, wire,
                   events, idle_timeout, idle_timer, idle_stale, sideVars>>

(* Connection.on_tick_done: the callback of a task that ended with an      *)
(* exception closes the connection with it.                                *)
OnTickDone(t) ==
    /\ tasks[t].pc = "failed"
    /\ tasks' = [tasks EXCEPT ![t].pc = "done"]
    /\ CloseBy(t, tasks[t].exc)
    /\ CancelIdleTimer
    /\ UNCHANGED <<reader, readerExc, message_pool, input_queue, has_input_deq, middleware, input_deq,
                   is_sending, download_speed, wire, events, idle_timeout, sideVars>>

(* Connection.handle_input_answer: the future is looked up in input_queue. *)
HandleInputAnswer(t) ==
    /\ tasks[t].pc = "new"
    /\ tasks[t].kind = "InputRequest"
    /\ IF tasks[t].mid \in input_queue
       THEN /\ input_queue' = input_queue \ {tasks[t].mid}
            /\ tasks' = [tasks EXCEPT ![t].pc = "done",
                                      ![t].hadInput = PendingOwner(tasks[t].mid)]
       ELSE /\ input_queue' = input_queue
            /\ tasks' = [tasks EXCEPT ![t].pc = "failed", ![t].exc = "ProtocolError",
                                      ![t].hadInput = PendingOwner(tasks[t].mid)]
    /\ UNCHANGED <<closed, closedBy, closeExc, close_runs, has_input_deq, middleware, reader, readerExc,
                   message_pool, input_deq, is_sending, download_speed, wire, events,
                   idle_timeout, idle_timer, idle_stale, sideVars>>

(* --------------------------- handle_request ---------------------------- *)
(* The message id is already in the pool: ProtocolError, before dispatch.  *)
HandleDuplicate(t) ==
    /\ tasks[t].pc = "new"
    /\ tasks[t].kind = "Request"
    /\ InUse(tasks[t].mid)
    /\ tasks' = [tasks EXCEPT ![t].pc = "failed", ![t].exc = "ProtocolError",
                              ![t].dup = InFlight(tasks[t].mid)]
    /\ UNCHANGED <<closed, closedBy, closeExc, close_runs, reader, readerExc, message_pool,
                   input_queue, has_input_deq, middleware, input_deq, is_sending, download_speed, wire,
                   events, idle_timeout, idle_timer, idle_stale, sideVars>>

(* A task that starts to send a frame: BasicResponse._encode_data has run, *)
(* the task now stands at `async with conn.lock_write()`.                  *)
StartSend(r, fk, len, after) ==
    [r EXCEPT !.pc = "acquire", !.fk = fk, !.fno = r.fno + 1, !.flen = len, !.after = after,
              !.status = 200]

ErrorResponseMutant(r, exc) ==
    [StartSend(r, "Response", 1, "finish") EXCEPT !.raised = exc, !.active = FALSE]

(* default_error_handler: the handler has raised exc; the Response with    *)
(* {'error': class name, 'message': str(err)} and status 500 is returned   *)
(* in its place and handle_request sends it.                               *)
ErrorResponse(r, exc) ==
    [StartSend(r, "Response", 1, "finish") EXCEPT !.status = 500, !.raised = exc,
                                                  !.active = FALSE]

Invoked(t) ==
    [tasks[t] EXCEPT !.invoked = TRUE, !.dup = InFlight(tasks[t].mid)]

(* no_response: the handler returns None; nothing is sent.                 *)
HandleNoResponse(t) ==
    /\ tasks[t].pc = "new"
    /\ tasks[t].kind = "Request"
    /\ tasks[t].hid = "no_response"
    /\ ~InUse(tasks[t].mid)
    /\ message_pool' = Remove(Append(message_pool, tasks[t].mid), tasks[t].mid)
    /\ tasks' = [tasks EXCEPT ![t] = [Invoked(t) EXCEPT !.pc = "done"]]
    /\ UNCHANGED <<closed, closedBy, closeExc, close_runs, reader, readerExc, input_queue,
                   has_input_deq, middleware, input_deq, is_sending, download_speed, wire, events,
                   idle_timeout, idle_timer, idle_stale, sideVars>>

(* echo_handler returns Response(request.data), delayed_response returns a *)
(* StreamResponse over a generator; handle_request sends the result.       *)
HandleReturn(t) ==
    /\ tasks[t].pc = "new"
    /\ tasks[t].kind = "Request"
    /\ tasks[t].hid \in {"echo_handler", "delayed_response"}
    /\ ~InUse(tasks[t].mid)
    /\ message_pool' = Append(message_pool, tasks[t].mid)
    /\ tasks' = [tasks EXCEPT ![t] =
                    StartSend(Invoked(t),
                              IF tasks[t].hid = "echo_handler" THEN "Response" ELSE "StreamResponse",
                              tasks[t].n, "finish")]
    /\ UNCHANGED <<closed, closedBy, closeExc, close_runs, reader, readerExc, input_queue,
                   has_input_deq, middleware, input_deq, is_sending, download_speed, wire, events,
                   idle_timeout, idle_timer, idle_stale, sideVars>>

(* internal_requests: the handler calls request.input(b'Are you ok?').     *)
(* BaseRequest.input with its defaults (bypass_limit, bypass_count False): *)
(* the limit check may cancel the Input of the smallest message id;        *)
(* Input.cancel of an Input that has a timer raises AttributeError         *)
(* (a TimerHandle has no done()); an exception raised in the handler is    *)
(* turned into a Response with status 500 by default_error_handler.  On a  *)
(* Connection without input_deq the limit check raises AttributeError      *)
(* before anything is registered.                                          *)
HandleInput(t) ==
    /\ tasks[t].pc = "new"
    /\ tasks[t].kind = "Request"
    /\ tasks[t].hid = "internal_requests"
    /\ ~InUse(tasks[t].mid)
    /\ message_pool' = Append(message_pool, tasks[t].mid)
    /\ LET amount == Cardinality({e \in input_deq : ~e.bypass_count})
           evict == amount > INPUT_LIMIT
           victim == Deq(Min(DeqKeys))
           cancelRaises == evict /\ victim.timer
           deq1 == IF evict /\ ~victim.timer THEN input_deq \ {victim} ELSE input_deq
           exists == tasks[t].mid \in {e.mid : e \in deq1}
           cancelled == IF evict /\ ~victim.timer /\ tasks[victim.owner].fut = "pending"
                        THEN [tasks EXCEPT ![victim.owner].fut = "cancelled"]
                        ELSE tasks
       IN  IF ~has_input_deq
           THEN /\ input_deq' = input_deq
                /\ tasks' = [tasks EXCEPT ![t] = ErrorResponse(Invoked(t), "AttributeError")]
           ELSE IF cancelRaises \/ exists
           THEN /\ input_deq' = deq1
                /\ tasks' = [cancelled EXCEPT ![t] =
                                ErrorResponse(Invoked(t), IF cancelRaises THEN "AttributeError"
                                                                          ELSE "ProtocolError")]
           ELSE /\ input_deq' = deq1 \cup {[mid |-> tasks[t].mid, owner |-> t,
                                            timer |-> (input_timeout > 0),
                                            bypass_count |-> FALSE]}
                /\ tasks' = [cancelled EXCEPT ![t] =
                                [StartSend(Invoked(t), "InputResponse", 1, "await")
                                    EXCEPT !.fut = "pending", !.active = TRUE]]
    /\ UNCHANGED <<closed, closedBy, closeExc, close_runs, reader, readerExc, input_queue,
                   has_input_deq, middleware, is_sending, download_speed, wire, events, idle_timeout,
                   idle_timer, idle_stale, sideVars>>

(* ----------------------------- lock_write ------------------------------ *)
FrameParts(r, speed) ==
    IF r.fk = "StreamResponse" THEN StreamParts(r.flen, r.bad) ELSE ResponseParts(r.flen, speed)

(* A task that ends with StreamClosedError: handle_request re-raises it    *)
(* (and default_error_handler before it), so the message id stays in the   *)
(* pool; raised inside lock_write, the line after its yield is not run.    *)
Failed(r, exc) ==
    [r EXCEPT !.pc = "failed", !.exc = exc, !.lock = FALSE, !.active = FALSE, !.todo = <<>>]

(* Connection.lock_write up to its yield, then the first stream.write of   *)
(* the frame: `while self.is_sending: await sleep(0.05)` lets the task     *)
(* through once the flag is down, and the flag goes up in the same run.    *)
Acquire(t) ==
    /\ tasks[t].pc = "acquire"
    /\ LockFree
    /\ is_sending' = TRUE
    /\ ResetIdleTimer
    /\ IF closed
       THEN /\ tasks' = [tasks EXCEPT ![t] = Failed(tasks[t], "StreamClosedError")]
            /\ wire' = wire
       ELSE LET r == [tasks[t] EXCEPT !.lock = TRUE]
                parts == FrameParts(r, download_speed)
            IN  /\ wire' = Append(wire, WireEntry(t, r, Head(parts)))
                /\ tasks' = [tasks EXCEPT ![t] = [r EXCEPT !.pc = "write", !.todo = Tail(parts)]]
    /\ UNCHANGED <<closed, closedBy, closeExc, close_runs, reader, readerExc, message_pool,
                   input_queue, has_input_deq, middleware, input_deq, download_speed, events,
                   idle_timeout, sideVars>>

(* The next stream.write of the frame, after the await of the one before   *)
(* (and, before a chunk, after the throttling sleep).                      *)
WritePart(t) ==
    /\ tasks[t].pc = "write"
    /\ ~closed
    /\ tasks[t].todo # <<>>
    /\ Head(tasks[t].todo) # "raise"
    /\ wire' = Append(wire, WireEntry(t, tasks[t], Head(tasks[t].todo)))
    /\ IF tasks[t].lock /\ Head(tasks[t].todo) \in {"payload", "chunk"}
       THEN ResetIdleTimer
       ELSE NoResetIdleTimer
    /\ tasks' = [tasks EXCEPT ![t].todo = Tail(tasks[t].todo)]
    /\ UNCHANGED <<closed, closedBy, closeExc, close_runs, reader, readerExc, message_pool,
                   input_queue, has_input_deq, middleware, input_deq, is_sending, download_speed,
                   events, idle_timeout, sideVars>>

(* The stream was closed while the writer was suspended: the write it      *)
(* awaits, or the next one, raises StreamClosedError inside lock_write.    *)
WriteFails(t) ==
    /\ tasks[t].pc = "write"
    /\ closed
    /\ tasks' = [tasks EXCEPT ![t] = Failed(tasks[t], "StreamClosedError")]
    /\ UNCHANGED <<closed, closedBy, closeExc, close_runs, reader, readerExc, message_pool,
                   input_queue, has_input_deq, middleware, input_deq, is_sending, download_speed, wire,
                   events, idle_timeout, idle_timer, idle_stale, sideVars>>

(* StreamResponse._write_to_stream: the generator yields a chunk that is   *)
(* not binary, MalformedDataError('Provided data chunk is not binary').    *)
(* It leaves lock_write at its yield; handle_request catches it, triggers  *)
(* ON_HANDLE_ERROR and removes the message id.                             *)
WriteRaises(t) ==
    /\ tasks[t].pc = "write"
    /\ ~closed
    /\ tasks[t].todo # <<>>
    /\ Head(tasks[t].todo) = "raise"
    /\ events' = events \cup {[name |-> "on_handle_error", exc |-> "MalformedDataError"]}
    /\ message_pool' = Remove(message_pool, tasks[t].mid)
    /\ tasks' = [tasks EXCEPT ![t].pc = "done", ![t].todo = <<>>, ![t].lock = FALSE]
    /\ UNCHANGED <<closed, closedBy, closeExc, close_runs, reader, readerExc, input_queue,
                   has_input_deq, middleware, input_deq, is_sending, download_speed, wire, idle_timeout,
                   idle_timer, idle_stale, sideVars>>

(* The handler has returned a Response: handle_request sends it.           *)
ReturnResponse(r) ==
    [StartSend(r, "Response", 1, "finish") EXCEPT !.active = FALSE]

(* `await fut` raises CancelledError in the handler.  The handler of        *)
(* cats.server.middleware returns a Response with status 500 for it.  The  *)
(* one of cats.middleware raises it again, and so does handle_request: the *)
(* task ends cancelled with the message id left in the pool, and           *)
(* task.exception() raises in on_tick_done before close is called.         *)
Cancelled(r) ==
    IF middleware = "cats.server.middleware"
    THEN ErrorResponse(r, "CancelledError")
    ELSE [r EXCEPT !.pc = "done", !.exc = "CancelledError", !.lock = FALSE, !.active = FALSE,
                   !.todo = <<>>]

(* The last write of the frame is done: lock_write resumes after its yield *)
(* and lowers the flag.  Then handle_request removes the message id, or    *)
(* BaseRequest.input goes on to `return await fut`.  A write that was      *)
(* flushed before the stream was closed completes as well.                 *)
WriteDone(t) ==
    /\ tasks[t].pc = "write"
    /\ tasks[t].todo = <<>>
    /\ is_sending' = (IF tasks[t].lock THEN FALSE ELSE is_sending)
    /\ LET r == [tasks[t] EXCEPT !.lock = FALSE]
       IN  IF r.after = "finish"
           THEN /\ message_pool' = Remove(message_pool, r.mid)
                /\ tasks' = [tasks EXCEPT ![t] = [r EXCEPT !.pc = "done", !.active = FALSE]]
           ELSE /\ message_pool' = message_pool
                /\ tasks' = [tasks EXCEPT ![t] =
                                IF r.fut = "pending" THEN [r EXCEPT !.pc = "await"]
                                ELSE IF r.fut = "result" THEN ReturnResponse(r)
                                ELSE Cancelled(r)]
    /\ UNCHANGED <<closed, closedBy, closeExc, close_runs, reader, readerExc, input_queue,
                   has_input_deq, middleware, input_deq, download_speed, wire, events, idle_timeout,
                   idle_timer, idle_stale, sideVars>>

(* The handler wakes from `await fut`: with the peer's answer it returns   *)
(* Response(b'Nice!') or Response(b'Sad!'); a cancelled future raises      *)
(* CancelledError.                                                         *)
ResumeInput(t) ==
    /\ tasks[t].pc = "await"
    /\ tasks[t].fut \in {"result", "cancelled"}
    /\ tasks' = [tasks EXCEPT ![t] = IF tasks[t].fut = "result"
                                      THEN ReturnResponse(tasks[t])
                                      ELSE Cancelled(tasks[t])]
    /\ UNCHANGED <<closed, closedBy, closeExc, close_runs, reader, readerExc, message_pool,
                   input_queue, has_input_deq, middleware, input_deq, is_sending, download_speed, wire,
                   events, idle_timeout, idle_timer, idle_stale, sideVars>>

(* A handler that calls `await request.conn.set_download_speed(speed)` and *)
(* returns None.  Connection.set_download_speed makes two stream.write     *)
(* calls, b'\x05' and the four bytes of the speed, with an await between   *)
(* them and without lock_write.                                            *)
HandleSetSpeed(t) ==
    /\ tasks[t].pc = "new"
    /\ tasks[t].kind = "Request"
    /\ tasks[t].hid = "set_speed"
    /\ ~InUse(tasks[t].mid)
    /\ message_pool' = Append(message_pool, tasks[t].mid)
    /\ IF closed
       THEN /\ tasks' = [tasks EXCEPT ![t] = Failed(Invoked(t), "StreamClosedError")]
            /\ wire' = wire
            /\ UNCHANGED <<idle_timer, idle_stale>>
       ELSE LET r == [Invoked(t) EXCEPT !.pc = "write", !.fk = "DownloadSpeed", !.fno = 1,
                                        !.after = "finish", !.active = TRUE,
                                        !.todo = <<"payload">>]
            IN  /\ wire' = Append(wire, WireEntry(t, r, "header"))
                /\ tasks' = [tasks EXCEPT ![t] = r]
                /\ NoResetIdleTimer
    /\ UNCHANGED <<closed, closedBy, closeExc, close_runs, reader, readerExc, input_queue,
                   has_input_deq, middleware, input_deq, is_sending, download_speed, events,
                   idle_timeout, sideVars>>

(* The timer armed by reset_idle_timer fires: partial(self.close,          *)
(* TimeoutError) runs.                                                     *)
IdleTimerFires ==
    /\ idle_timer
    /\ idle_timer' = FALSE
    /\ idle_stale' = FALSE
    /\ CloseBy(-2, "TimeoutError")
    /\ UNCHANGED <<reader, readerExc, tasks, message_pool, input_queue, has_input_deq, middleware,
                   input_deq, is_sending, download_speed, wire, events, idle_timeout, sideVars>>

Next ==
    \/ RecvFrame
    \/ RecvUnknown
    \/ ReaderClosed
    \/ IdleTimerFires
    \/ \E t \in Tasks : TickDownloadSpeed(t)
    \/ \E t \in Tasks : TickUnsupported(t)
    \/ \E t \in Tasks : OnTickDone(t)
    \/ \E t \in Tasks : HandleInputAnswer(t)
    \/ \E t \in Tasks : HandleDuplicate(t)
    \/ \E t \in Tasks : HandleNoResponse(t)
    \/ \E t \in Tasks : HandleReturn(t)
    \/ \E t \in Tasks : HandleInput(t)
    \/ \E t \in Tasks : HandleSetSpeed(t)
    \/ \E t \in Tasks : Acquire(t)
    \/ \E t \in Tasks : WritePart(t)
    \/ \E t \in Tasks : WriteFails(t)
    \/ \E t \in Tasks : WriteRaises(t)
    \/ \E t \in Tasks : WriteDone(t)
    \/ \E t \in Tasks : ResumeInput(t)

Spec == Init /\ [][Next]_vars

(* ------------------------ accepting a connection ----------------------- *)
MaxWindow == 2       \* valid_window of the handshake: 1..MaxWindow

(* Unix seconds at which the handshake is validated: whole seconds, both   *)
(* halves of a ten-second bucket and the ties 1225 and 1235.               *)
Times == 1225..1239

(* round(x / 10) * 10 of get_hashes for whole seconds: Python rounds to    *)
(* the nearest integer, and a tie to the even one.                         *)
Round10(sec) ==
    LET q == sec \div 10
        r == sec % 10
    IN  IF r < 5 THEN q * 10
        ELSE IF r > 5 THEN (q + 1) * 10
        ELSE IF q % 2 = 0 THEN q * 10 ELSE (q + 1) * 10

(* SHA-256 is taken to be free of collisions: a digest stands for what was *)
(* hashed, the key and the decimal string of the time.                     *)
Digest(key, n) == [kind |-> "digest", key |-> key, n |-> n]

(* SHA256TimeHandshake.get_hashes *)
get_hashes(now, W) == {Digest("secret_key", Round10(now) + i * 10) : i \in (0 - W)..W}

(* What a peer does when the server waits for the 64 handshake bytes: it   *)
(* presents a digest, 64 bytes that are not UTF-8, or nothing.             *)
Presented ==
    {Digest(k, ((t \div 10) + i) * 10) :
        k \in {"secret_key", "other_key"}, t \in Times, i \in (0 - MaxWindow - 1)..(MaxWindow + 1)}
    \cup {[kind |-> "undecodable", key |-> "-", n |-> 0], [kind |-> "silent", key |-> "-", n |-> 0]}

(* Server.handle_stream has been called with the stream of a new peer.     *)
AcceptStarts ==
    [configured : BOOLEAN, matching : BOOLEAN, W : 1..MaxWindow, now : Times,
     presented : Presented, stage : {"accepted"}, exc : {"none"}, io : {<<>>},
     stream_closed : {FALSE}, in_connections : {FALSE}, in_all : {FALSE}, hs_events : {{}},
     verdict : {"none"}]

AcceptInit ==
    /\ ConnInit
    /\ has_input_deq = FALSE
    /\ middleware = "cats.middleware"
    /\ idle_timeout = 0
    /\ accept \in AcceptStarts
    /\ api = ApiStart
    /\ stream = NoStream
    /\ evt = NoEvt
    /\ srv = ServerStart
    /\ rate = RateStart
    /\ codec = CodecStart
    /\ snd = SendStart
    /\ rdr = ReaderStart
    /\ tmp = FilesStart
    /\ inp = InputStart
    /\ accept.configured \/ (~accept.matching /\ accept.W = 1 /\ accept.presented.kind = "silent")

(* The exception leaves handle_stream: init_connection is awaited before   *)
(* the try block, nothing catches it and nothing closes the stream.        *)
Escapes(a, exc) == [a EXCEPT !.stage = "raised", !.exc = exc]

(* Server.init_connection: api_version is read from the stream.            *)
ReadApiVersion ==
    /\ accept.stage = "accepted"
    /\ accept' = [accept EXCEPT !.stage = "version_read",
                                !.io = Append(accept.io, "read_api_version")]
    /\ UNCHANGED <<connVars, notAccept>>

(* Server.init_connection: the server time is written, the Connection is   *)
(* created and handshake.validate is called.  Server calls                 *)
(* validate(conn), SHA256TimeHandshake defines validate(server, conn): the *)
(* call raises TypeError unless the server is of a build whose call        *)
(* matches the definition.  Without a handshake conn.init() follows.       *)
WriteTime ==
    /\ accept.stage = "version_read"
    /\ LET a == [accept EXCEPT !.io = Append(accept.io, "write_time")]
       IN  accept' = IF ~a.configured THEN [a EXCEPT !.stage = "initialised"]
                     ELSE IF ~a.matching THEN Escapes(a, "TypeError")
                     ELSE [a EXCEPT !.stage = "validating"]
    /\ UNCHANGED <<connVars, notAccept>>

(* SHA256TimeHandshake.validate: the 64 bytes are read and decoded, and    *)
(* looked up in get_hashes(); ON_HANDSHAKE_FAIL or ON_HANDSHAKE_PASS is    *)
(* triggered.                                                              *)
ReadHandshake ==
    /\ accept.stage = "validating"
    /\ accept.presented.kind # "silent"
    /\ LET a == [accept EXCEPT !.io = Append(accept.io, "read_handshake")]
       IN  accept' =
             IF a.presented.kind = "undecodable" THEN Escapes(a, "UnicodeDecodeError")
             ELSE IF a.presented \in get_hashes(a.now, a.W)
             THEN [a EXCEPT !.stage = "verdict", !.verdict = "pass",
                            !.hs_events = a.hs_events \cup {"on_handshake_pass"}]
             ELSE [a EXCEPT !.stage = "verdict", !.verdict = "fail",
                            !.hs_events = a.hs_events \cup {"on_handshake_fail"}]
    /\ UNCHANGED <<connVars, notAccept>>

(* SHA256TimeHandshake.validate: wait_for gives up the read of the 64      *)
(* bytes after the timeout.                                                *)
HandshakeTimeout ==
    /\ accept.stage = "validating"
    /\ accept.presented.kind = "silent"
    /\ accept' = Escapes([accept EXCEPT !.verdict = "timeout"], "TimeoutError")
    /\ UNCHANGED <<connVars, notAccept>>

(* SHA256TimeHandshake.validate: b'\x01' is written and validate returns,  *)
(* or b'\x00' is written and HandshakeError is raised.                     *)
WriteVerdict ==
    /\ accept.stage = "verdict"
    /\ accept' = IF accept.verdict = "pass"
                 THEN [accept EXCEPT !.stage = "initialised",
                                     !.io = Append(accept.io, "write_01")]
                 ELSE Escapes([accept EXCEPT !.io = Append(accept.io, "write_00")],
                              "HandshakeError")
    /\ UNCHANGED <<connVars, notAccept>>

(* Server.handle_stream after init_connection: the connection is attached  *)
(* to the channel __all__ and appended to the connections, and conn.start  *)
(* is awaited.                                                             *)
StartServing ==
    /\ accept.stage = "initialised"
    /\ accept' = [accept EXCEPT !.stage = "running", !.in_all = TRUE, !.in_connections = TRUE]
    /\ UNCHANGED <<connVars, notAccept>>

AcceptNext ==
    \/ ReadApiVersion
    \/ WriteTime
    \/ ReadHandshake
    \/ HandshakeTimeout
    \/ WriteVerdict
    \/ StartServing

SpecAccept == AcceptInit /\ [][AcceptNext]_vars

(* ------------------- registering and dispatching handlers --------------- *)
IsWildcard(h) == h.version = None /\ h.end_version = None

(* The comparison of a stored version with the version of the new item.    *)
PrecedesMutant(a, b) == a <= b
Precedes(a, b) == a < b

Raised(l) == [list |-> l, result |-> "raised"]

(* Api.register for the list l = self._handlers[handler.id].               *)
register(l, handler) ==
    IF \E i \in 1..Len(l) : l[i] = handler THEN [list |-> l, result |-> "returned"]
    ELSE IF /\ handler.version # None /\ handler.end_version # None
            /\ ~(handler.version <= handler.end_version) THEN Raised(l)
    ELSE IF IsWildcard(handler) THEN [list |-> Append(l, handler), result |-> "appended"]
    ELSE IF handler.version = None THEN Raised(l)
    ELSE IF l = <<>> THEN [list |-> Append(l, handler), result |-> "appended"]
    ELSE LET last_handler == l[Len(l)]
         IN  IF IsWildcard(last_handler) THEN Raised(l)
             ELSE IF last_handler.end_version # None
             THEN IF Precedes(last_handler.end_version, handler.version)
                  THEN [list |-> Append(l, handler), result |-> "appended"]
                  ELSE Raised(l)
             ELSE IF Precedes(last_handler.version, handler.version)
                  THEN [list |-> Append([l EXCEPT ![Len(l)].end_version = handler.version - 1],
                                        handler),
                        result |-> "appended"]
                  ELSE Raised(l)

(* Api.compute: an id with no item is left out, a single wildcard is kept  *)
(* as the item itself, everything else as the list.                        *)
compute(handlers) ==
    [i \in {j \in DOMAIN handlers : handlers[j] # <<>>} |->
        [is_list |-> ~(Len(handlers[i]) = 1 /\ IsWildcard(handlers[i][1])), items |-> handlers[i]]]

(* The loop of Connection.dispatch over a list, from its i-th item: the    *)
(* comparison of a version that is None with api_version raises TypeError. *)
RECURSIVE Scan(_, _, _)
Scan(l, i, api_version) ==
    IF i > Len(l) THEN [exc |-> "ProtocolError", fn |-> "-"]
    ELSE LET item == l[i]
             end_version == IF item.end_version = None THEN api_version ELSE item.end_version
         IN  IF item.version = None THEN [exc |-> "TypeError", fn |-> "-"]
             ELSE IF item.version <= api_version /\ api_version <= end_version
             THEN [exc |-> "none", fn |-> <<item.callback, item.version>>]
             ELSE Scan(l, i + 1, api_version)

(* Connection.dispatch on the handlers of the Application. *)
dispatch(computed, handler_id, api_version) ==
    IF handler_id \notin DOMAIN computed THEN [exc |-> "ProtocolError", fn |-> "-"]
    ELSE IF computed[handler_id].is_list THEN Scan(computed[handler_id].items, 1, api_version)
    ELSE [exc |-> "none", fn |-> <<computed[handler_id].items[1].callback, None>>]

(* Api.register(handler), Api.on and Handler.__init_subclass__, at import. *)
ApiRegister ==
    /\ api.stage = "registering"
    /\ api.calls < MaxRegister
    /\ \E handler \in HandlerItem :
         LET r == register(api.handlers[handler.id], handler)
         IN  api' = [api EXCEPT !.handlers[handler.id] = r.list, !.calls = api.calls + 1,
                                !.arg = handler, !.result = r.result]
    /\ UNCHANGED <<connVars, notApi>>

(* Application.__init__ computes its handlers from the Api.                *)
AppInit ==
    /\ api.stage = "registering"
    /\ api' = [api EXCEPT !.stage = "serving", !.arg = NoItem, !.result = "none"]
    /\ UNCHANGED <<connVars, notApi>>

(* Connection.handle_request for a Request of a connection with some       *)
(* api_version, its message id not in the pool: dispatch, then the handler *)
(* is called; an exception of dispatch ends the task of tick.              *)
DispatchRequest ==
    /\ api.stage = "serving"
    /\ \E handler_id \in HandlerIds \cup {3}, api_version \in 0..(MaxVersion + 1) :
         LET d == dispatch(compute(api.handlers), handler_id, api_version)
         IN  api' = [api EXCEPT !.handler_id = handler_id, !.api_version = api_version,
                                !.exc = d.exc, !.fn = d.fn, !.invoked = (d.exc = "none"),
                                !.stage = IF d.exc = "none" THEN "handling" ELSE "failed"]
    /\ UNCHANGED <<connVars, notApi>>

(* Connection.on_tick_done for the task that dispatch ended: close(exc).   *)
DispatchFailed ==
    /\ api.stage = "failed"
    /\ api' = [api EXCEPT !.stage = "closed", !.closed = TRUE]
    /\ UNCHANGED <<connVars, notApi>>

ApiNext ==
    \/ ApiRegister
    \/ AppInit
    \/ DispatchRequest
    \/ DispatchFailed

ApiInit ==
    /\ ConnInit
    /\ has_input_deq = FALSE
    /\ middleware = "cats.middleware"
    /\ idle_timeout = 0
    /\ accept = Served
    /\ api = ApiStart
    /\ stream = NoStream
    /\ evt = NoEvt
    /\ srv = ServerStart
    /\ rate = RateStart
    /\ codec = CodecStart
    /\ snd = SendStart
    /\ rdr = ReaderStart
    /\ tmp = FilesStart
    /\ inp = InputStart

SpecApi == ApiInit /\ [][ApiNext]_vars

(* --------------------- sending a StreamResponse ------------------------- *)
(* The lengths of the chunks a generator yields: empty, one byte, and both *)
(* sides of the smallest download speed a peer can set.                    *)
ChunkLens == {0, 1, MIN_DOWNLOAD_SPEED, MIN_DOWNLOAD_SPEED + 1}

(* The Offset header of the request: none, inside the first chunk, past a  *)
(* chunk.                                                                  *)
Offsets == {0, 1, MIN_DOWNLOAD_SPEED + 1}

(* The bytes lo..hi-1 of the k-th chunk the generator yields.              *)
Slice(k, lo, hi) == [k |-> k, lo |-> lo, hi |-> hi]

len(chunk) == chunk.hi - chunk.lo

(* _sync_gen / _async_gen for one item: `while left > 0` yields            *)
(* item[:s], s = min(left, max_chunk_size), and goes on with item[s:].     *)
RECURSIVE SplitItem(_, _)
SplitItem(item, max_chunk_size) ==
    IF len(item) <= 0 THEN <<>>
    ELSE LET s == IF len(item) < max_chunk_size THEN len(item) ELSE max_chunk_size
         IN  <<Slice(item.k, item.lo, item.lo + s)>>
                 \o SplitItem(Slice(item.k, item.lo + s, item.hi), max_chunk_size)

(* The generator with every item passed on whole.                          *)
RECURSIVE SyncGenMutant(_, _, _)
SyncGenMutant(items, k, speed) ==
    IF k > Len(items) THEN <<>>
    ELSE <<Slice(k, 0, items[k])>> \o SyncGenMutant(items, k + 1, speed)

(* StreamResponse._sync_gen / _async_gen over the generator of the         *)
(* handler, from its k-th item on.                                         *)
RECURSIVE SyncGen(_, _, _)
SyncGen(items, k, speed) ==
    IF k > Len(items) THEN <<>>
    ELSE SplitItem(Slice(k, 0, items[k]), ChunkSize(speed))
             \o SyncGen(items, k + 1, speed)

(* Compressor.compress and Compressor.decompress: the compressed bytes     *)
(* stand for what was compressed and how; compressed bytes of a chunk that *)
(* is not empty are not empty.                                             *)
compress(chunk, compression) == [of |-> chunk, compression |-> compression]

decompress(part, compression) ==
    IF part.compression = compression THEN part.of ELSE Slice(0, 0, 0)

CompressedLen(part) ==
    IF part.compression = "none" THEN len(part.of) ELSE len(part.of) + 1

HeadersGetMutant(value, default) == default

(* request.headers.get('Offset', 0): the header, or the default when the   *)
(* request has none.                                                       *)
HeadersGet(value, default) == IF value = None THEN default ELSE value

(* A handler has returned StreamResponse(gen, ...) for a request with or   *)
(* without an Offset header, on a connection with some download_speed;     *)
(* handle_request has set result.offset.                                   *)
StreamStarts ==
    {[NoStream EXCEPT !.items = it, !.speed = sp, !.request_offset = h,
                      !.offset0 = HeadersGet(h, 0), !.offset = HeadersGet(h, 0),
                      !.compression = c, !.stage = "encode"] :
        it \in UNION {[1..n -> ChunkLens] : n \in 0..MaxYields},
        sp \in {0, MIN_DOWNLOAD_SPEED}, h \in {None} \cup Offsets, c \in {"none", "gzip"}}

StreamInit ==
    /\ ConnInit
    /\ has_input_deq = FALSE
    /\ middleware = "cats.middleware"
    /\ idle_timeout = 0
    /\ accept = Served
    /\ api = ApiStart
    /\ stream \in StreamStarts
    /\ evt = NoEvt
    /\ srv = ServerStart
    /\ rate = RateStart
    /\ codec = CodecStart
    /\ snd = SendStart
    /\ rdr = ReaderStart
    /\ tmp = FilesStart
    /\ inp = InputStart

(* StreamResponse.send_to_conn: _encode_data wraps the generator, then the *)
(* header, the length of the headers and the headers are written.          *)
StreamHeader ==
    /\ stream.stage = "encode"
    /\ stream' = [stream EXCEPT !.stage = "chunks",
                                !.pieces = SyncGen(stream.items, 1, stream.speed),
                                !.written = <<"header", "headers_len", "headers">>]
    /\ UNCHANGED <<connVars, notStream>>

(* StreamResponse._write_to_stream, one round of `async for chunk`: the    *)
(* offset left is cut off the chunk, an empty chunk is skipped, the chunk  *)
(* is compressed and its length and its bytes are written.                 *)
StreamChunk ==
    /\ stream.stage = "chunks"
    /\ stream.pieces # <<>>
    /\ LET chunk0 == Head(stream.pieces)
           i == IF stream.offset < len(chunk0) THEN stream.offset ELSE len(chunk0)
           chunk == IF stream.offset > 0 THEN Slice(chunk0.k, chunk0.lo + i, chunk0.hi)
                                         ELSE chunk0
           offset == IF stream.offset > 0 THEN stream.offset - i ELSE stream.offset
           part == compress(chunk, stream.compression)
       IN  stream' = [stream EXCEPT
                         !.pieces = Tail(stream.pieces),
                         !.offset = offset,
                         !.written = IF len(chunk) = 0 THEN stream.written
                                     ELSE stream.written \o <<"chunk_size", "chunk">>,
                         !.blocks = IF len(chunk) = 0 THEN stream.blocks
                                    ELSE Append(stream.blocks,
                                                [chunk_size |-> CompressedLen(part),
                                                 part |-> part])]
    /\ UNCHANGED <<connVars, notStream>>

(* StreamResponse._write_to_stream after the loop: b'\x00\x00\x00\x00'.    *)
StreamTerminator ==
    /\ stream.stage = "chunks"
    /\ stream.pieces = <<>>
    /\ stream' = [stream EXCEPT !.stage = "sent",
                                !.written = Append(stream.written, "terminator"),
                                !.blocks = Append(stream.blocks,
                                                  [chunk_size |-> 0,
                                                   part |-> compress(Slice(0, 0, 0), "none")])]
    /\ UNCHANGED <<connVars, notStream>>

(* StreamRequest.recv_data, one round of `while chunk_size := ...`: the    *)
(* peer reads a length; zero ends the data, otherwise it reads that many   *)
(* bytes, decompresses them and appends them to what it has.               *)
StreamRecv ==
    /\ stream.stage \in {"chunks", "sent"}
    /\ stream.read < Len(stream.blocks)
    /\ LET b == stream.blocks[stream.read + 1]
       IN  stream' = IF b.chunk_size = 0
                     THEN [stream EXCEPT !.stage = "received", !.read = stream.read + 1]
                     ELSE [stream EXCEPT !.read = stream.read + 1,
                                         !.received = Append(stream.received,
                                                             decompress(b.part, stream.compression))]
    /\ UNCHANGED <<connVars, notStream>>

StreamNext ==
    \/ StreamHeader
    \/ StreamChunk
    \/ StreamTerminator
    \/ StreamRecv

SpecStream == StreamInit /\ [][StreamNext]_vars

(* ------------------------------ events --------------------------------- *)
(* Application.add_event_listener.                                         *)
add_event_listener(l, callback) == Append(l, callback)

(* list.remove: the first occurrence goes.                                 *)
RemoveFirst(l, x) ==
    LET i == CHOOSE k \in DOMAIN l : l[k] = x /\ \A j \in 1..(k - 1) : l[j] # x
    IN  [k \in 1..(Len(l) - 1) |-> IF k < i THEN l[k] ELSE l[k + 1]]

(* Application.remove_event_listener.                                      *)
remove_event_listener(l, callback) ==
    IF callback \in Range(l) THEN RemoveFirst(l, callback) ELSE l

(* inspect.isawaitable(fn), fn being the listener and not what it returned: *)
(* a function is not awaitable, an `async def` function is not either.     *)
isawaitable(fn) == FALSE

(* Application.trigger from the i-th listener on: the listeners it calls,  *)
(* in order, the positions whose result it awaits, and whether a listener  *)
(* raised, which ends the loop and the call.                               *)
RECURSIVE trigger(_, _)
trigger(l, i) ==
    IF i > Len(l) THEN [called |-> <<>>, awaited |-> {}, raised |-> FALSE]
    ELSE IF l[i] = "raises" THEN [called |-> <<l[i]>>, awaited |-> {}, raised |-> TRUE]
    ELSE LET rest == trigger(l, i + 1)
         IN  [called |-> <<l[i]>> \o rest.called,
              awaited |-> (IF isawaitable(l[i]) THEN {i} ELSE {}) \cup rest.awaited,
              raised |-> rest.raised]

AddListener ==
    /\ Len(evt.listeners) < MaxListeners
    /\ \E callback \in Callbacks :
          evt' = [NoEvt EXCEPT !.listeners = add_event_listener(evt.listeners, callback)]
    /\ UNCHANGED <<connVars, notEvt>>

RemoveListener ==
    /\ \E callback \in Callbacks :
          /\ remove_event_listener(evt.listeners, callback) # evt.listeners
          /\ evt' = [NoEvt EXCEPT !.listeners = remove_event_listener(evt.listeners, callback)]
    /\ UNCHANGED <<connVars, notEvt>>

Trigger ==
    /\ evt.stage = "idle"
    /\ LET res == trigger(evt.listeners, 1)
       IN  evt' = [evt EXCEPT !.called = res.called, !.awaited = res.awaited,
                              !.raised = res.raised, !.stage = "triggered"]
    /\ UNCHANGED <<connVars, notEvt>>

EventsNext ==
    \/ AddListener
    \/ RemoveListener
    \/ Trigger

EventsInit ==
    /\ ConnInit
    /\ has_input_deq = FALSE
    /\ middleware = "cats.middleware"
    /\ idle_timeout = 0
    /\ accept = Served
    /\ api = ApiStart
    /\ stream = NoStream
    /\ evt = NoEvt
    /\ srv = ServerStart
    /\ rate = RateStart
    /\ codec = CodecStart
    /\ snd = SendStart
    /\ rdr = ReaderStart
    /\ tmp = FilesStart
    /\ inp = InputStart

SpecEvents == EventsInit /\ [][EventsNext]_vars

(* ----------------------------- throttling ------------------------------ *)
Max2(a, b) == IF a >= b THEN a ELSE b

Min2(a, b) == IF a <= b THEN a ELSE b

(* BaseResponse.sleep: what the generator yields when it is resumed; the   *)
(* first time 0, later max(min(1.0 - elapsed, 1.0), 0) with elapsed the    *)
(* time since it was last resumed, the sleep it asked for then included.   *)
sleep(speed, first, elapsed) ==
    IF first \/ speed = 0 THEN 0
    ELSE Max2(Min2(TicksPerSecond - elapsed, TicksPerSecond), 0)

(* The payload lengths of the responses, around the download speed.        *)
DataLens == {1, MIN_DOWNLOAD_SPEED, 3 * MIN_DOWNLOAD_SPEED}

RateStarts ==
    {[RateStart EXCEPT !.queue = q] : q \in UNION {[1..n -> DataLens] : n \in 1..MaxResponses}}

(* BasicResponse._write_to_stream up to its loop: left = _data_len, a new  *)
(* sleeper.  Responses follow each other without a pause.                  *)
StartResponse ==
    /\ rate.stage = "idle"
    /\ rate.queue # <<>>
    /\ rate' = [rate EXCEPT !.stage = "loop", !.left = Head(rate.queue), !.queue = Tail(rate.queue),
                            !.first = TRUE, !.slept = <<>>]
    /\ UNCHANGED <<connVars, notRate>>

(* One turn of the loop: the sleeper is resumed, the task sleeps what it   *)
(* yields, and a chunk of at most download_speed bytes is written; the     *)
(* write takes no time or one tick.                                        *)
WriteChunk ==
    /\ rate.stage = "loop"
    /\ rate.left > 0
    /\ \E took \in {0, 1} :
          LET n == sleep(rate.speed, rate.first, rate.now - rate.start)
              size == Min2(rate.left, ChunkSize(rate.speed))
          IN  /\ rate.now + n + took <= MaxTime
              /\ rate' = [rate EXCEPT !.first = FALSE, !.start = rate.now,
                                      !.slept = Append(@, n),
                                      !.left = @ - size,
                                      !.log = Append(@, [t |-> rate.now + n, bytes |-> size]),
                                      !.now = rate.now + n + took]
    /\ UNCHANGED <<connVars, notRate>>

(* left is 0: _write_to_stream returns.                                    *)
EndResponse ==
    /\ rate.stage = "loop"
    /\ rate.left = 0
    /\ rate' = [rate EXCEPT !.stage = "idle"]
    /\ UNCHANGED <<connVars, notRate>>

RateNext ==
    \/ StartResponse
    \/ WriteChunk
    \/ EndResponse

RateInit ==
    /\ ConnInit
    /\ has_input_deq = FALSE
    /\ middleware = "cats.middleware"
    /\ idle_timeout = 0
    /\ accept = Served
    /\ api = ApiStart
    /\ stream = NoStream
    /\ evt = NoEvt
    /\ srv = ServerStart
    /\ rate \in RateStarts
    /\ codec = CodecStart
    /\ snd = SendStart
    /\ rdr = ReaderStart
    /\ tmp = FilesStart
    /\ inp = InputStart

SpecRate == RateInit /\ [][RateNext]_vars

(* ----------------------- channels and the server ----------------------- *)
AttachMutant(s, conn, channel) ==
    [s EXCEPT !.channels[channel] = Append(@, conn)]

(* Application.attach_conn_to_channel.                                     *)
attach_conn_to_channel(s, conn, channel) ==
    IF conn \notin Range(s.channels[channel])
    THEN [s EXCEPT !.channels[channel] = Append(@, conn)]
    ELSE s

(* Application.detach_conn_from_channel.                                   *)
detach_conn_from_channel(s, conn, channel) ==
    IF conn \in Range(s.channels[channel])
    THEN [s EXCEPT !.channels[channel] = RemoveFirst(@, conn)]
    ELSE s

(* Application.remove_conn_from_channels: one detach per channel.          *)
remove_conn_from_channels(s, conn) ==
    [s EXCEPT !.channels = [n \in Channels |-> detach_conn_from_channel(s, conn, n).channels[n]]]

(* Application.clear_all_channels.                                         *)
clear_all_channels(s) == [s EXCEPT !.channels = [n \in Channels |-> <<>>]]

signed_in(s, conn) == s.conn[conn].identity # NoIdentity

(* Connection.sign_in: the identity is stored and the connection attached  *)
(* to the two channels of the identity.                                    *)
sign_in(s, conn, identity) ==
    LET s1 == [s EXCEPT !.conn[conn].identity = identity]
        s2 == attach_conn_to_channel(s1, conn, model_group(identity))
    IN  attach_conn_to_channel(s2, conn, auth_group(identity))

(* Connection.sign_out.                                                    *)
sign_out(s, conn) ==
    IF signed_in(s, conn)
    THEN LET identity == s.conn[conn].identity
             s1 == detach_conn_from_channel(s, conn, auth_group(identity))
             s2 == detach_conn_from_channel(s1, conn, model_group(identity))
         IN  [s2 EXCEPT !.conn[conn].identity = NoIdentity]
    ELSE s

(* Connection.close: a function, it returns None.                          *)
close(s, conn) ==
    IF s.conn[conn].closed THEN s
    ELSE sign_out([s EXCEPT !.conn[conn].closed = TRUE], conn)

(* The `finally` of Server.handle_stream; list.remove raises ValueError    *)
(* when the connection is not in the list.                                 *)
Finally(s, conn) ==
    LET s1 == remove_conn_from_channels(s, conn)
    IN  [s1 EXCEPT !.connections = IF conn \in Range(@) THEN RemoveFirst(@, conn) ELSE @,
                   !.conn[conn].stage = "ended"]

(* Server.shutdown.  The trigger coroutine is made a task, or run, first.  *)
(* conn.close(exc) closes the first connection of the list and returns     *)
(* None, for which loop.create_task raises TypeError and asyncio.run       *)
(* raises ValueError: the call ends there.  With an empty list it goes on  *)
(* to clear the channels and the list and to stop the server.              *)
shutdown(s, loop_running) ==
    LET s1 == [s EXCEPT !.event = IF loop_running THEN "pending" ELSE "fired",
                        !.registered = Range(s.connections)]
    IN  IF s.connections # <<>>
        THEN [close(s1, Head(s.connections)) EXCEPT !.shutdown = "raised"]
        ELSE [clear_all_channels(s1) EXCEPT !.connections = <<>>, !.stopped = TRUE,
                                            !.shutdown = "returned"]

(* A handler has the Connection as long as its task runs; the tasks are    *)
(* not cancelled when the reader loop ends.                                *)
InHandlers(c) == srv.conn[c].stage \in {"serving", "ended"}

Quiet(s) == [s EXCEPT !.last = "none"]

(* TCPServer accepts a stream: handle_stream stands in init_connection.    *)
AcceptStream ==
    /\ ~srv.stopped
    /\ \E c \in Conns :
          /\ srv.conn[c].stage = "none"
          /\ \A d \in Conns : d < c => srv.conn[d].stage # "none"
          /\ srv' = Quiet([srv EXCEPT !.conn[c].stage = "handshake"])
    /\ UNCHANGED <<connVars, notSrv>>

(* handle_stream after init_connection: __all__, the list, conn.start().   *)
RegisterConn ==
    /\ \E c \in Conns :
          /\ srv.conn[c].stage = "handshake"
          /\ srv' = Quiet([attach_conn_to_channel(srv, c, "__all__")
                              EXCEPT !.connections = Append(@, c), !.conn[c].stage = "serving"])
    /\ UNCHANGED <<connVars, notSrv>>

(* conn.start() has ended: with an Exception handle_stream calls           *)
(* conn.close(exc=err) and awaits the None it returns, a TypeError; with   *)
(* CancelledError or KeyboardInterrupt it raises again; the loop may also  *)
(* find is_open false and return.  The finally clause runs in every case.  *)
ReaderEnds ==
    /\ \E c \in Conns : \E how \in {"exception", "cancelled", "returned"} :
          /\ srv.conn[c].stage = "serving"
          /\ how = "returned" => srv.conn[c].closed
          /\ srv' = Quiet(Finally(IF how = "exception" THEN close(srv, c) ELSE srv, c))
    /\ UNCHANGED <<connVars, notSrv>>

(* close() called by the idle timer or by on_tick_done.                    *)
CloseConn ==
    /\ \E c \in Conns :
          /\ InHandlers(c)
          /\ ~srv.conn[c].closed
          /\ srv' = Quiet(close(srv, c))
    /\ UNCHANGED <<connVars, notSrv>>

SignIn ==
    /\ \E c \in Conns : \E identity \in Identities :
          /\ InHandlers(c)
          /\ srv' = Quiet(sign_in(srv, c, identity))
    /\ UNCHANGED <<connVars, notSrv>>

SignOut ==
    /\ \E c \in Conns :
          /\ InHandlers(c)
          /\ srv' = Quiet(sign_out(srv, c))
    /\ UNCHANGED <<connVars, notSrv>>

(* conn.attach_to_channel / conn.detach_from_channel called by a handler.  *)
Attach ==
    /\ \E c \in Conns :
          /\ InHandlers(c)
          /\ srv' = [attach_conn_to_channel(srv, c, "room")
                        EXCEPT !.last = IF c \in Range(srv.channels["room"])
                                        THEN "attach_again" ELSE "attach"]
    /\ UNCHANGED <<connVars, notSrv>>

Detach ==
    /\ \E c \in Conns :
          /\ InHandlers(c)
          /\ srv' = [detach_conn_from_channel(srv, c, "room")
                        EXCEPT !.last = IF c \in Range(srv.channels["room"])
                                        THEN "detach" ELSE "detach_absent"]
    /\ UNCHANGED <<connVars, notSrv>>

Shutdown ==
    /\ srv.shutdown = "none"
    /\ \E loop_running \in BOOLEAN :
          srv' = [shutdown(srv, loop_running) EXCEPT !.last = "shutdown"]
    /\ UNCHANGED <<connVars, notSrv>>

(* The task made of trigger(ON_SERVER_SHUTDOWN) runs.                      *)
ShutdownEvent ==
    /\ srv.event = "pending"
    /\ srv' = Quiet([srv EXCEPT !.event = "fired"])
    /\ UNCHANGED <<connVars, notSrv>>

ServerNext ==
    \/ AcceptStream
    \/ RegisterConn
    \/ ReaderEnds
    \/ CloseConn
    \/ SignIn
    \/ SignOut
    \/ Attach
    \/ Detach
    \/ Shutdown
    \/ ShutdownEvent

ServerInit ==
    /\ ConnInit
    /\ has_input_deq = FALSE
    /\ middleware = "cats.middleware"
    /\ idle_timeout = 0
    /\ accept = Served
    /\ api = ApiStart
    /\ stream = NoStream
    /\ evt = NoEvt
    /\ srv = ServerStart
    /\ rate = RateStart
    /\ codec = CodecStart
    /\ snd = SendStart
    /\ rdr = ReaderStart
    /\ tmp = FilesStart
    /\ inp = InputStart

SpecServer == ServerInit /\ [][ServerNext]_vars

(* ============================= properties ============================== *)
LockedKinds == {"Response", "StreamResponse", "InputResponse"}

SameFrame(i, j) == wire[i].t = wire[j].t /\ wire[i].fno = wire[j].fno

(* A task stands inside the body of `async with conn.lock_write()`.        *)
InsideLock(t) == tasks[t].lock

(* C1: the stream writes of two frames sent with lock_write never          *)
(* interleave: between two writes of one such frame the wire holds no      *)
(* write of another such frame.                                            *)
C1_FramesNotInterleaved ==
    \A i \in DOMAIN wire : \A j \in DOMAIN wire : \A k \in DOMAIN wire :
        (i < j /\ j < k /\ SameFrame(i, k)
           /\ wire[i].fk \in LockedKinds /\ wire[j].fk \in LockedKinds)
        => SameFrame(i, j)

(* C1, its case: a writer is in the middle of its frame, writes still to   *)
(* come, while another task waits in lock_write to send a frame.           *)
C1_Witness ==
    \E t \in Tasks : \E u \in Tasks :
        /\ t # u
        /\ tasks[t].pc = "write" /\ InsideLock(t) /\ tasks[t].todo # <<>>
        /\ tasks[u].pc = "acquire"
        /\ \E i \in DOMAIN wire : wire[i].t = t /\ wire[i].fno = tasks[t].fno

(* C2: the flag is up only while some writer is inside lock_write; a       *)
(* writer that has left it, by completing or by an exception, has lowered  *)
(* the flag.                                                               *)
C2_LockReleased ==
    is_sending => \E t \in Tasks : InsideLock(t)

(* C3: every stream write of the connection is made inside lock_write,     *)
(* the download-speed notice included, and no write of another writer      *)
(* lands between two writes of one frame.                                  *)
C3_EveryWriteLocked ==
    /\ \A i \in DOMAIN wire : wire[i].lock
    /\ \A i \in DOMAIN wire : \A j \in DOMAIN wire : \A k \in DOMAIN wire :
        (i < j /\ j < k /\ SameFrame(i, k)) => SameFrame(i, j)

(* The handling of a task has ended: tick returned or raised.               *)
Ended(t) == tasks[t].pc \in {"failed", "done"}

(* handle_request has called the handler for the task's request and has    *)
(* not finished with it: the handler runs, or its result is being sent.    *)
Handling(t) == tasks[t].invoked /\ ~Ended(t)

(* C4: a request whose message id is in the pool when its handling starts  *)
(* ends with ProtocolError, no handler is called for it and nothing is     *)
(* sent for it; once its done-callback has run the connection is closed,   *)
(* with that ProtocolError when the callback is what closed it.            *)
C4_DuplicateRejected ==
    \A t \in Tasks :
        tasks[t].dup =>
            /\ ~tasks[t].invoked
            /\ tasks[t].fno = 0
            /\ Ended(t) /\ tasks[t].exc = "ProtocolError"
            /\ tasks[t].pc = "done" => (closed /\ (closedBy = t => closeExc = "ProtocolError"))

(* C4, its case: a duplicate was rejected and its done-callback closed the *)
(* connection with the ProtocolError.                                      *)
C4_Witness ==
    \E t \in Tasks :
        /\ tasks[t].dup /\ tasks[t].pc = "done"
        /\ closed /\ closedBy = t /\ closeExc = "ProtocolError"

(* C5: the pool never holds a message id twice, and at most one handler    *)
(* invocation per message id is in progress, its id in the pool.           *)
C5_OneHandlerPerId ==
    /\ \A i \in DOMAIN message_pool : \A j \in DOMAIN message_pool :
            message_pool[i] = message_pool[j] => i = j
    /\ \A t \in Tasks : \A u \in Tasks :
            (t # u /\ Handling(t) /\ Handling(u)) => tasks[t].mid # tasks[u].mid
    /\ \A t \in Tasks : (Handling(t) \/ tasks[t].active) => InFlight(tasks[t].mid)
    /\ \A t \in Tasks : tasks[t].active => Handling(t)

(* C5, its case: a second request arrived under the id of a request whose  *)
(* handler is still in progress, and was turned away.                      *)
C5_Witness ==
    \E t \in Tasks : \E u \in Tasks :
        /\ t # u /\ tasks[t].mid = tasks[u].mid
        /\ Handling(t)
        /\ tasks[u].kind = "Request" /\ tasks[u].dup /\ Ended(u)

(* C6: when the reader meets an unknown discriminator byte, the connection *)
(* is closed and ON_CONN_CLOSE has been fired with the ProtocolError.      *)
C6_UnknownTypeFiresConnClose ==
    readerExc = "ProtocolError" =>
        /\ closed
        /\ [name |-> "on_conn_close", exc |-> "ProtocolError"] \in events

(* The frames of kind fk that task t has started on the wire.              *)
FramesOf(t, fk) ==
    {i \in DOMAIN wire : wire[i].t = t /\ wire[i].fk = fk /\ wire[i].part = "header"}

(* C7: a handled Ping has put exactly one Pong frame on the wire, ended    *)
(* without an exception and has not closed the connection.                 *)
C7_PingAnswered ==
    \A t \in Tasks :
        (tasks[t].kind = "Ping" /\ Ended(t)) =>
            /\ tasks[t].exc = "none"
            /\ Cardinality(FramesOf(t, "Pong")) = 1
            /\ closedBy # t

C10_InputDialog ==
    \A t \in Tasks :
        tasks[t].hid = "internal_requests" =>
            /\ FramesOf(t, "Response") # {} => Cardinality(FramesOf(t, "InputResponse")) = 1
            /\ tasks[t].fut = "pending" =>
                    \E e \in input_deq : e.owner = t /\ e.mid = tasks[t].mid
            /\ tasks[t].pc = "await" => Cardinality(FramesOf(t, "InputResponse")) = 1
            /\ tasks[t].fut = "pending" =>
                    ~\E a \in Tasks : /\ tasks[a].kind = "InputRequest"
                                      /\ tasks[a].hadInput = t
                                      /\ Ended(a)
            /\ \A i \in FramesOf(t, "Response") : \A j \in FramesOf(t, "InputResponse") : j < i

(* C11: download_speed is always 0 or within 1024..2^25; the step that     *)
(* handles a DownloadSpeed frame sets download_speed to the frame's value  *)
(* when that value is 0 or within the range, and otherwise leaves          *)
(* download_speed as it was; either way the task ends without an exception *)
(* and the step does not close the connection.                             *)
C11_DownloadSpeedRange ==
    /\ [](download_speed = 0 \/ (1024 <= download_speed /\ download_speed <= 33554432))
    /\ [][\A t \in Tasks :
            (tasks[t].kind = "DownloadSpeed" /\ tasks[t].pc = "new" /\ tasks'[t].pc # "new") =>
                /\ download_speed' =
                      IF tasks[t].val = 0 \/ (1024 <= tasks[t].val /\ tasks[t].val <= 33554432)
                      THEN tasks[t].val ELSE download_speed
                /\ closed' = closed
                /\ tasks'[t].pc = "done" /\ tasks'[t].exc = "none"]_vars

(* C11, its case: a limit was accepted, then a frame with a value outside  *)
(* the range was handled; the limit stands and the connection is open.     *)
C11_Witness ==
    \E t \in Tasks : \E u \in Tasks :
        /\ t < u
        /\ tasks[t].kind = "DownloadSpeed" /\ tasks[t].val = 33554432 /\ tasks[t].pc = "done"
        /\ tasks[u].kind = "DownloadSpeed" /\ tasks[u].val = 33554433 /\ tasks[u].pc = "done"
        /\ download_speed = 33554432
        /\ ~closed

(* The pending inputs that count toward the limit.                         *)
Counted == {e \in input_deq : ~e.bypass_count}

C13_IdleTimer ==
    /\ idle_timeout > 0 => ~idle_stale
    /\ closedBy = -2 => (closed /\ closeExc = "TimeoutError" /\ idle_timeout > 0)
    /\ idle_timeout <= 0 => (~idle_timer /\ closedBy # -2 /\ closeExc # "TimeoutError")

(* C14: a closed connection stays closed, and a close() call on a closed   *)
(* connection changes nothing: who closed it and with what stay as they    *)
(* are, and sign_out and stream.close are not run a second time.           *)
C14_CloseIsFinal ==
    /\ [](close_runs <= 1 /\ (closed <=> close_runs = 1))
    /\ [][closed => (closed' /\ closedBy' = closedBy /\ closeExc' = closeExc
                        /\ close_runs' = close_runs)]_vars

(* C14, its case: the done-callback of a failed task called close() on a   *)
(* connection that something else had closed before.                       *)
C14_Witness ==
    \E t \in Tasks :
        /\ tasks[t].pc = "done" /\ tasks[t].exc = "ProtocolError"
        /\ closed /\ closedBy # t /\ closeExc = "TimeoutError"

(* The setup of a connection is over: it is served, or an exception left   *)
(* handle_stream.                                                          *)
SetupOver == accept.stage \in {"running", "raised"}

(* C15: the server serves a peer (handles its frames, holds it in its      *)
(* connections and in the channel __all__) only when the handshake         *)
(* accepted, and on the wire it reads api_version, writes its time, reads  *)
(* the 64 handshake bytes and writes the verdict byte, in that order.      *)
C15_HandshakeBeforeService ==
    /\ (accept.configured /\ (accept.stage = "running" \/ accept.in_connections \/ accept.in_all))
           => accept.verdict = "pass"
    /\ (accept.configured /\ SetupOver /\ accept.presented.kind = "digest")
           => \E v \in {"write_01", "write_00"} :
                  accept.io = <<"read_api_version", "write_time", "read_handshake", v>>

(* C16: when the handshake fails, the presented bytes being outside the    *)
(* valid set or not arriving within the timeout, the stream of the peer    *)
(* ends up closed, for a mismatch after the byte 0x00 was written.         *)
C16_FailedHandshakeCloses ==
    (accept.configured /\ SetupOver /\ accept.presented \notin get_hashes(accept.now, accept.W))
        => /\ accept.stage = "raised"
           /\ accept.stream_closed
           /\ accept.presented.kind = "digest" => accept.io[Len(accept.io)] = "write_00"

(* C17: SHA256TimeHandshake accepts exactly the digests of                 *)
(* secret || str(bucket + i*10), i in -W..W, where bucket is               *)
(* floor(unix_seconds / 10) * 10 at validation time.                       *)
C17_AcceptedDigests ==
    accept.verdict \in {"pass", "fail"} =>
        (accept.verdict = "pass" <=>
            \E i \in (0 - accept.W)..accept.W :
                accept.presented = Digest("secret_key", (accept.now \div 10) * 10 + i * 10))

(* The item covers api_version: version <= api_version <= end_version, an  *)
(* item with no end_version covering every api_version from its version    *)
(* on, and an item with no version at all covering every api_version.      *)
Covers(item, api_version) ==
    /\ item.version = None \/ item.version <= api_version
    /\ item.end_version = None \/ api_version <= item.end_version

(* The stored items [1..2], [3..4], [6..] that registering the versions    *)
(* [1], [3..4], [6..] of tests/handlers.py leaves under the id 2.          *)
TestVersions(l) ==
    /\ Len(l) = 3
    /\ <<l[1].version, l[1].end_version>> = <<1, 2>>
    /\ <<l[2].version, l[2].end_version>> = <<3, 4>>
    /\ <<l[3].version, l[3].end_version>> = <<6, None>>

Dispatched == api.stage \in {"handling", "failed", "closed"}

(* C18: dispatch selects the first registered item whose versions cover    *)
(* the api_version of the connection; when there is none, or the id is     *)
(* unknown, it raises ProtocolError, no handler is invoked and the         *)
(* connection is closed; with [1], [3..4], [6..] registered the api        *)
(* versions 0..7 select none, 1, 1, 2, 2, none, 3, 3.                      *)
C18_VersionedDispatch ==
    Dispatched =>
        LET l == IF api.handler_id \in HandlerIds THEN api.handlers[api.handler_id] ELSE <<>>
            hits == {i \in 1..Len(l) : Covers(l[i], api.api_version)}
        IN  /\ hits # {} =>
                  /\ api.exc = "none" /\ api.invoked /\ api.stage = "handling"
                  /\ \E i \in hits : /\ \A j \in hits : i <= j
                                     /\ api.fn = <<l[i].callback, l[i].version>>
            /\ hits = {} =>
                  /\ api.exc = "ProtocolError" /\ ~api.invoked
                  /\ api.stage = "closed" => api.closed
            /\ TestVersions(l) =>
                  \/ api.api_version \in {0, 5} /\ api.exc = "ProtocolError"
                  \/ api.api_version \in {1, 2} /\ api.fn[2] = 1
                  \/ api.api_version \in {3, 4} /\ api.fn[2] = 3
                  \/ api.api_version \in {6, 7} /\ api.fn[2] = 6

(* The items of one id are a single wildcard, or all carry a version and   *)
(* their ranges increase strictly without overlapping.                     *)
WellFormed(l) ==
    \/ Len(l) = 1 /\ IsWildcard(l[1])
    \/ /\ \A i \in 1..Len(l) :
            /\ l[i].version # None
            /\ l[i].end_version # None => l[i].version <= l[i].end_version
            /\ i < Len(l) => l[i].end_version # None
       /\ \A i, j \in 1..Len(l) : i < j => l[i].end_version < l[j].version

(* C19: after any sequence of register calls the items under each id are a *)
(* single wildcard or versioned items with strictly increasing, disjoint   *)
(* ranges, and compute() returns no list that contains a wildcard.         *)
C19_ItemsWellFormed ==
    /\ \A id \in HandlerIds : WellFormed(api.handlers[id])
    /\ \A id \in DOMAIN compute(api.handlers) :
          compute(api.handlers)[id].is_list =>
              \A i \in 1..Len(api.handlers[id]) : ~IsWildcard(api.handlers[id][i])

(* The versioned item handler may not follow the last item of the list l:  *)
(* its version is not greater than the end of the last item, or than the   *)
(* version of a last item that is open-ended, or the last is a wildcard.   *)
Refused(l, handler) ==
    LET last == l[Len(l)]
    IN  \/ IsWildcard(last)
        \/ last.end_version # None /\ handler.version <= last.end_version
        \/ last.end_version = None /\ last.version # None /\ handler.version <= last.version

(* A step of register(handler) for a versioned handler and a list that is  *)
(* not empty: a refused handler raises and leaves every list as it was; an *)
(* accepted one that follows an open-ended item is appended and its        *)
(* predecessor's end_version becomes handler.version - 1.                  *)
RegisterRefuses(h, l, l2) ==
    /\ Refused(l, h) => (api'.result = "raised" /\ api'.handlers = api.handlers)
    /\ ~Refused(l, h) /\ api'.result = "appended" =>
          /\ Len(l2) = Len(l) + 1 /\ l2[Len(l2)] = h
          /\ \A i \in 1..(Len(l) - 1) : l2[i] = l[i]
          /\ l2[Len(l)] = IF l[Len(l)].end_version = None
                          THEN [l[Len(l)] EXCEPT !.end_version = h.version - 1]
                          ELSE l[Len(l)]

(* C20, as stated: register raises and leaves the items of the id          *)
(* unchanged when the version of the new versioned item is not greater     *)
(* than the last item's end_version, or than its version when it is        *)
(* open-ended, or when the id is held by a wildcard; accepting after an    *)
(* open-ended item sets that item's end_version to the new version - 1.    *)
C20_RegisterRaises ==
    [][(api'.calls = api.calls + 1 /\ api'.arg.version # None
            /\ api.handlers[api'.arg.id] # <<>>)
        => RegisterRefuses(api'.arg, api.handlers[api'.arg.id], api'.handlers[api'.arg.id])]_vars

(* C20, amended: the same for a new item that is not equal to one already  *)
(* stored under the id; for an equal one register returns without raising  *)
(* and changes nothing.                                                    *)
C20_RegisterRaisesUnlessStored ==
    [][(api'.calls = api.calls + 1 /\ api'.arg.version # None
            /\ api.handlers[api'.arg.id] # <<>>)
        => IF api'.arg \in Range(api.handlers[api'.arg.id])
           THEN api'.result = "returned" /\ api'.handlers = api.handlers
           ELSE RegisterRefuses(api'.arg, api.handlers[api'.arg.id],
                                api'.handlers[api'.arg.id])]_vars

(* register has raised for a version that is not greater than the version  *)
(* of the open-ended last item, whose own predecessor was closed at its    *)
(* version - 1 when it was accepted.                                       *)
C20_Witness ==
    LET l == api.handlers[2]
    IN  /\ api.result = "raised" /\ api.arg.id = 2 /\ api.arg.version # None
        /\ Len(l) = 2 /\ l[2].end_version = None /\ l[1].end_version = l[2].version - 1
        /\ api.arg.version <= l[2].version /\ api.arg \notin Range(l)

(* The stream writes task t has made.                                      *)
WritesOf(t) == {i \in DOMAIN wire : wire[i].t = t}

(* handle_request has returned for the task's request.                     *)
Returned(t) == tasks[t].pc = "done" /\ tasks[t].exc = "none"

(* C21: a handled Request whose handler returns a Response has exactly one *)
(* response frame written for it, with the request's message id and        *)
(* handler id and Status 200; one whose handler returns None has no frame  *)
(* written for it; neither closes the connection.                          *)
C21_OneResponsePerRequest ==
    \A t \in Tasks :
        (tasks[t].kind = "Request" /\ tasks[t].invoked) =>
            /\ tasks[t].hid = "no_response" =>
                  /\ WritesOf(t) = {}
                  /\ Returned(t)
                  /\ closedBy # t
            /\ tasks[t].hid = "echo_handler" =>
                  /\ Cardinality(FramesOf(t, "Response")) <= 1
                  /\ \A i \in WritesOf(t) :
                        /\ wire[i].fk = "Response" /\ wire[i].fno = 1
                        /\ wire[i].mid = tasks[t].mid /\ wire[i].hid = tasks[t].hid
                        /\ wire[i].status = 200 /\ wire[i].error = "none"
                  /\ Returned(t) =>
                        /\ Cardinality(FramesOf(t, "Response")) = 1
                        /\ Cardinality({i \in WritesOf(t) : wire[i].part = "payload"}) = tasks[t].n
                  /\ closedBy # t

(* C21, its case: an echoed request and a request without a response have  *)
(* both been handled, and the connection is open.                          *)
C21_Witness ==
    \E t \in Tasks : \E u \in Tasks :
        /\ tasks[t].hid = "echo_handler" /\ Returned(t) /\ tasks[t].n = MaxLen
        /\ tasks[u].hid = "no_response" /\ Returned(u)
        /\ ~closed

(* The chunks of the generator from the k-th on that are not empty, the    *)
(* first off bytes of them left out.                                       *)
RECURSIVE Yielded(_, _, _)
Yielded(items, k, off) ==
    IF k > Len(items) THEN <<>>
    ELSE IF items[k] <= off THEN Yielded(items, k + 1, off - items[k])
    ELSE <<Slice(k, off, items[k])>> \o Yielded(items, k + 1, 0)

(* The bytes of a sequence of slices, one after the other: slices that     *)
(* continue each other are joined.                                         *)
RECURSIVE Joined(_)
Joined(slices) ==
    IF Len(slices) <= 1 THEN slices
    ELSE LET rest == Joined(Tail(slices))
             a == Head(slices)
         IN  IF a.k = Head(rest).k /\ a.hi = Head(rest).lo
             THEN <<Slice(a.k, a.lo, Head(rest).hi)>> \o Tail(rest)
             ELSE <<a>> \o rest

(* The blocks written before the terminator, decompressed.                 *)
DataBlocks ==
    [i \in 1..(Len(stream.blocks) - 1) |->
        decompress(stream.blocks[i].part, stream.compression)]

StreamSent == stream.stage \in {"sent", "received"}

(* The writes of the frame: header, length of the headers, headers, a      *)
(* length and its bytes for each block, and one terminator at the end; no  *)
(* block before the terminator has the length zero.                        *)
StreamLayout ==
    /\ \A i \in 1..Len(stream.blocks) :
          stream.blocks[i].chunk_size = 0 => (StreamSent /\ i = Len(stream.blocks))
    /\ StreamSent =>
          /\ stream.blocks # <<>> /\ stream.blocks[Len(stream.blocks)].chunk_size = 0
          /\ stream.written = <<"header", "headers_len", "headers">>
                 \o Repeat(<<"chunk_size", "chunk">>, Len(stream.blocks) - 1)
                 \o <<"terminator">>

HandlerErrors == {"AttributeError", "ProtocolError"}

HandlerCancelled(t) ==
    /\ tasks[t].fut = "cancelled"
    /\ ~(tasks[t].fk = "InputResponse" /\ tasks[t].pc \in {"acquire", "write", "await"})
    /\ tasks[t].exc # "StreamClosedError"

(* The handler of task t has ended with StreamClosedError: a write it made *)
(* itself, of its InputResponse or of the download speed, found the stream *)
(* closed.                                                                 *)
HandlerStreamClosed(t) ==
    /\ tasks[t].exc = "StreamClosedError"
    /\ tasks[t].fk \in {"InputResponse", "DownloadSpeed"}

C25_AllListenersCalled ==
    evt.stage = "triggered" => evt.called = evt.listeners

(* The listeners trigger has called are the first of the registered ones,  *)
(* in registration order.                                                  *)
CalledInOrder ==
    /\ Len(evt.called) <= Len(evt.listeners)
    /\ \A i \in DOMAIN evt.called : evt.called[i] = evt.listeners[i]

(* The connections of a channel.                                           *)
Members(n) == Range(srv.channels[n])

(* The connection has only seen sign_in, sign_out and close: its reader    *)
(* loop runs and the server was not shut down.                             *)
OnlySigned(c) == srv.conn[c].stage = "serving" /\ srv.shutdown = "none"

(* C26: a connection that has seen any sequence of sign_in, sign_out and   *)
(* close is in the channels model_<M> and model_<M>:<I> exactly when its   *)
(* identity is the one with model name M and id I.                         *)
C26_IdentityChannels ==
    \A c \in Conns :
        OnlySigned(c) =>
            \A i \in Identities :
                (c \in Members(model_group(i)) /\ c \in Members(auth_group(i)))
                    <=> srv.conn[c].identity = i

(* No connection is twice in a channel.                                    *)
NoDuplicates ==
    \A n \in Channels : \A i \in DOMAIN srv.channels[n] : \A j \in DOMAIN srv.channels[n] :
        i # j => srv.channels[n][i] # srv.channels[n][j]

(* C27: attaching a connection to a channel it is in and detaching it from *)
(* a channel it is not in leave the channels as they are; a connection is  *)
(* never twice in a channel, and after one detach it is not in the channel. *)
C27_AttachDetachIdempotent ==
    /\ NoDuplicates
    /\ \A c \in Conns : \A n \in Channels :
          /\ c \in Members(n) => attach_conn_to_channel(srv, c, n) = srv
          /\ c \notin Members(n) => detach_conn_from_channel(srv, c, n) = srv
          /\ c \notin Range(detach_conn_from_channel(srv, c, n).channels[n])
          /\ c \in Range(attach_conn_to_channel(srv, c, n).channels[n])

(* C27, its case: a handler has just attached a connection to the channel  *)
(* it was already in, which holds both connections.                        *)
C27_Witness ==
    /\ srv.last = "attach_again"
    /\ Len(srv.channels["room"]) = MaxConns

(* C28: every connection of the server's list is in __all__, and a         *)
(* connection whose reader loop has ended is in no channel and not in the  *)
(* list.                                                                   *)
C28_ListedInAllEndedInNone ==
    /\ \A c \in Range(srv.connections) : c \in Members("__all__")
    /\ \A c \in Conns :
          srv.conn[c].stage = "ended" =>
              /\ \A n \in Channels : c \notin Members(n)
              /\ c \notin Range(srv.connections)

(* The step in which the reader loop of a connection ends takes the        *)
(* connection out of every channel and out of the list.                    *)
ReaderEndRemoves ==
    [][\A c \in Conns :
          (srv.conn[c].stage = "serving" /\ srv'.conn[c].stage = "ended") =>
              /\ \A n \in Channels : c \notin Range(srv'.channels[n])
              /\ c \notin Range(srv'.connections)]_vars

(* C29: when Server.shutdown() has just been called, the trigger of        *)
(* ON_SERVER_SHUTDOWN was made, every connection that was in the list is   *)
(* closed, every channel is empty, the list is empty and the server was    *)
(* stopped.                                                                *)
C29_ShutdownCompletes ==
    srv.last = "shutdown" =>
        /\ srv.event # "none"
        /\ \A c \in srv.registered : srv.conn[c].closed
        /\ \A n \in Channels : srv.channels[n] = <<>>
        /\ srv.connections = <<>>
        /\ srv.stopped

(* The payload bytes written at the times from a up to b, b left out.      *)
RECURSIVE BytesIn(_, _, _)
BytesIn(log, a, b) ==
    IF log = <<>> THEN 0
    ELSE (IF a <= Head(log).t /\ Head(log).t < b THEN Head(log).bytes ELSE 0)
         + BytesIn(Tail(log), a, b)

(* C30: with download_speed R the payload bytes written within two seconds *)
(* are at most 2R, wherever the two seconds start.                         *)
C30_RateBounded ==
    \A a \in 0..MaxTime :
        BytesIn(rate.log, a, a + 2 * TicksPerSecond) <= 2 * rate.speed

(* The number of bytes of a sequence of slices.                            *)
RECURSIVE Total(_)
Total(slices) == IF slices = <<>> THEN 0 ELSE len(Head(slices)) + Total(Tail(slices))

(* C31: the response is sent with the offset of the request's Offset       *)
(* header, 0 without the header; a StreamResponse with offset k over       *)
(* chunks of n bytes in all writes the concatenation of the chunks without *)
(* its first min(k, n) bytes, however the chunks are cut.                  *)
C31_OffsetApplied ==
    /\ stream.stage # "idle" =>
          /\ stream.request_offset = None => stream.offset0 = 0
          /\ stream.request_offset # None => stream.offset0 = stream.request_offset
    /\ StreamSent =>
          LET n == Total(Yielded(stream.items, 1, 0))
              k == IF stream.request_offset = None THEN 0 ELSE stream.request_offset
          IN  /\ Joined(DataBlocks) = Yielded(stream.items, 1, k)
              /\ Total(DataBlocks) = n - (IF k < n THEN k ELSE n)

(* C31, its case: the Offset header reaches past the first chunk into the  *)
(* second one, and the rest of the second chunk has been written.          *)
C31_Witness ==
    /\ StreamSent
    /\ Len(stream.items) = 2 /\ stream.items[1] > 0
    /\ stream.request_offset # None /\ stream.request_offset > stream.items[1]
    /\ Total(DataBlocks) > 0

(* ------------------------------- codecs --------------------------------- *)
ByteValues == {0, 1}

Blobs == UNION {[1..n -> ByteValues] : n \in 0..MaxBytes}

(* FileCodec.SEPARATOR.                                                    *)
SEPARATOR == <<0, 0>>

(* The bytes _decode_from_file reads at once while it looks for the header.*)
HEADER_PART == 1024

(* 1 << 24, the size of the reads of FileCodec.                            *)
READ_SIZE == 16777216

EncodedError(name) == [NoEncoded EXCEPT !.error = name]

DecodedError(name) == [NoDecoded EXCEPT !.error = name]

(* ByteCodec.encode: None and the bytes-like values are taken.             *)
ByteCodecEncode(p) ==
    IF p.kind = "bytes" THEN [NoEncoded EXCEPT !.bytes = p.bytes]
    ELSE IF p.kind = "json" /\ p.json = <<"null">> THEN [NoEncoded EXCEPT !.bytes = <<>>]
    ELSE EncodedError("TypeError")

(* ByteCodec.decode.                                                       *)
ByteCodecDecode(e) == [NoDecoded EXCEPT !.payload = [NoPayload EXCEPT !.kind = "bytes", !.bytes = e.bytes]]

(* ujson.encode of a string: the quotes, and every / written as \/.        *)
RECURSIVE Escape(_)
Escape(chars) ==
    IF chars = <<>> THEN <<>>
    ELSE (IF Head(chars) = "/" THEN <<"\\", "/">> ELSE <<Head(chars)>>) \o Escape(Tail(chars))

(* ujson.encode: the text of a value.                                      *)
ujson_encode(json) ==
    IF Head(json) = "str" THEN <<"\"">> \o Escape(Tail(json)) \o <<"\"">> ELSE json

(* str.replace("</", "<\\/").                                              *)
RECURSIVE Replace(_)
Replace(text) ==
    IF Len(text) < 2 THEN text
    ELSE IF text[1] = "<" /\ text[2] = "/" THEN <<"<", "\\", "/">> \o Replace(Tail(Tail(text)))
    ELSE <<Head(text)>> \o Replace(Tail(text))

(* The characters between the quotes, every \c read as c.                  *)
RECURSIVE Unescape(_)
Unescape(chars) ==
    IF chars = <<>> THEN <<>>
    ELSE IF Head(chars) = "\\" /\ Len(chars) >= 2 THEN <<chars[2]>> \o Unescape(Tail(Tail(chars)))
    ELSE <<Head(chars)>> \o Unescape(Tail(chars))

(* ujson.decode: the value of a text.                                      *)
ujson_decode(text) ==
    IF Head(text) = "\"" THEN <<"str">> \o Unescape(SubSeq(text, 2, Len(text) - 1)) ELSE text

(* JsonCodec.encode.                                                       *)
JsonCodecEncode(p) ==
    IF p.kind = "json" THEN [NoEncoded EXCEPT !.text = Replace(ujson_encode(p.json))]
    ELSE EncodedError("TypeError")

(* JsonCodec.decode: no data at all is the empty object.                   *)
JsonCodecDecode(e) ==
    [NoDecoded EXCEPT !.payload =
        [NoPayload EXCEPT !.kind = "json",
                          !.json = IF e.text = <<>> THEN <<"{}">> ELSE ujson_decode(e.text)]]

(* FileCodec.normalize_input: whether every value of what it returns is a  *)
(* FileInfo. A single Path is converted; of a list or a dict the converted *)
(* copy is dropped and the input itself is returned.                       *)
normalize_input(p) == p.form \in {"Path", "FileInfo", "dict[FileInfo]"}

(* The bytes of the files, one after the other.                            *)
RECURSIVE Contents(_)
Contents(files) == IF files = <<>> THEN <<>> ELSE Head(files).data \o Contents(Tail(files))

(* FileCodec.encode: the header with key and size of every file, the       *)
(* separator, and size bytes of every file. info.size of a Path raises     *)
(* AttributeError, which becomes TypeError.                                *)
FileCodecEncode(p, hl) ==
    IF p.kind = "files" /\ normalize_input(p)
    THEN [NoEncoded EXCEPT !.hl = hl,
                           !.header = [i \in DOMAIN p.files |-> [key |-> p.files[i].key, size |-> p.files[i].size]],
                           !.data = Contents(p.files)]
    ELSE EncodedError("TypeError")

(* FileCodec._decode_from_buff, the loop over the nodes: size bytes are    *)
(* cut off the front of the data for every node.                           *)
RECURSIVE DecodeNodesBuff(_, _)
DecodeNodesBuff(header, data) ==
    IF header = <<>> THEN <<>>
    ELSE LET size == Head(header).size
             n == Min2(size, Len(data))
         IN  <<[key |-> Head(header).key, size |-> size, data |-> SubSeq(data, 1, n)]>>
             \o DecodeNodesBuff(Tail(header), SubSeq(data, n + 1, Len(data)))

(* FileCodec._decode_from_buff.                                            *)
_decode_from_buff(e) ==
    [NoDecoded EXCEPT !.payload =
        [NoPayload EXCEPT !.kind = "files", !.form = "dict[FileInfo]",
                          !.files = DecodeNodesBuff(e.header, e.data)]]

(* How many bytes _unpack_file asks the file for.                          *)
UnpackRead(left) == Max2(left, READ_SIZE)

(* FileCodec._unpack_file: reads until `left` bytes were taken; a read     *)
(* that returns nothing raises ValueError.                                 *)
RECURSIVE _unpack_file(_, _)
_unpack_file(rest, left) ==
    IF left <= 0 THEN [error |-> "none", data |-> <<>>, rest |-> rest]
    ELSE LET n == Min2(UnpackRead(left), Len(rest))
         IN  IF n = 0 THEN [error |-> "ValueError", data |-> <<>>, rest |-> rest]
             ELSE LET more == _unpack_file(SubSeq(rest, n + 1, Len(rest)), left - n)
                  IN  [more EXCEPT !.data = SubSeq(rest, 1, n) \o @]

(* FileCodec._decode_from_file, the loop over the nodes.                   *)
RECURSIVE DecodeNodesFile(_, _)
DecodeNodesFile(header, rest) ==
    IF header = <<>> THEN [error |-> "none", files |-> <<>>]
    ELSE LET file == _unpack_file(rest, Head(header).size)
         IN  IF file.error # "none" THEN [error |-> file.error, files |-> <<>>]
             ELSE LET more == DecodeNodesFile(Tail(header), file.rest)
                  IN  [more EXCEPT !.files = <<[key |-> Head(header).key, size |-> Head(header).size,
                                                data |-> file.data]>> \o @]

(* Whether the loop of _decode_from_file that reads HEADER_PART bytes at   *)
(* once finds the separator that follows a header of hl bytes. The header  *)
(* holds no zero byte; a separator whose two bytes lie in two parts is in  *)
(* neither of them, and what the loop then takes for the header is not the *)
(* header.                                                                 *)
HeaderFound(hl) == hl % HEADER_PART # HEADER_PART - 1

(* FileCodec._decode_from_file.                                            *)
_decode_from_file(e) ==
    IF ~HeaderFound(e.hl) THEN DecodedError("ValueError")
    ELSE LET nodes == DecodeNodesFile(e.header, e.data)
         IN  IF nodes.error # "none" THEN DecodedError(nodes.error)
             ELSE [NoDecoded EXCEPT !.payload =
                      [NoPayload EXCEPT !.kind = "files", !.form = "dict[FileInfo]",
                                        !.files = nodes.files]]

(* FileCodec.decode: from a Path or from a buffer.                         *)
FileCodecDecode(e, from) ==
    IF from = "file" THEN _decode_from_file(e) ELSE _decode_from_buff(e)

(* Codec.encode: the first codec that raises no TypeError, with its id.    *)
CodecEncode(p, hl) ==
    IF ByteCodecEncode(p).error = "none" THEN [ByteCodecEncode(p) EXCEPT !.type_id = T_BYTE]
    ELSE IF JsonCodecEncode(p).error = "none" THEN [JsonCodecEncode(p) EXCEPT !.type_id = T_JSON]
    ELSE IF FileCodecEncode(p, hl).error = "none" THEN [FileCodecEncode(p, hl) EXCEPT !.type_id = T_FILE]
    ELSE EncodedError("TypeError")

(* Codec.decode.                                                           *)
CodecDecode(e, data_type, from) ==
    IF data_type = T_BYTE THEN ByteCodecDecode(e)
    ELSE IF data_type = T_JSON THEN JsonCodecDecode(e)
    ELSE IF data_type = T_FILE THEN FileCodecDecode(e, from)
    ELSE DecodedError("TypeError")

JsonValues == {<<"null">>, <<"true">>, <<"0">>, <<"{}">>, <<"str">>, <<"str", "<", "/">>, <<"str", "/">>}

(* The files payloads: files 1..n with any bytes, size being the length.   *)
FileLists ==
    UNION {{[i \in 1..n |-> [key |-> i, size |-> Len(c[i]), data |-> c[i]]] : c \in [1..n -> Blobs]}
           : n \in 0..MaxFiles}

FileForms(files) ==
    {"dict[FileInfo]", "dict[Path]"} \cup (IF Len(files) = 1 THEN {"Path", "FileInfo"} ELSE {})

(* The length of the header: 2 for no file, else as long as the names of   *)
(* the files make it.                                                      *)
HeaderLens(files) ==
    IF files = <<>> THEN {2} ELSE {HEADER_PART \div 2, HEADER_PART - 1, HEADER_PART}

Payloads ==
    {[NoPayload EXCEPT !.kind = "bytes", !.bytes = b] : b \in Blobs}
    \cup {[NoPayload EXCEPT !.kind = "json", !.json = j] : j \in JsonValues}
    \cup UNION {{[NoPayload EXCEPT !.kind = "files", !.form = f, !.files = fs] : f \in FileForms(fs)}
                : fs \in FileLists}

CodecStarts ==
    {[CodecStart EXCEPT !.stage = "start", !.payload = p, !.hl = hl, !.from = from] :
        p \in Payloads, hl \in {2, HEADER_PART \div 2, HEADER_PART - 1, HEADER_PART}, from \in {"buff", "file"}}

(* The caller encodes the payload.                                         *)
Encode ==
    /\ codec.stage = "start"
    /\ LET e == CodecEncode(codec.payload, codec.hl)
       IN  codec' = [codec EXCEPT !.stage = IF e.error = "none" THEN "encoded" ELSE "raised",
                                  !.encoded = e, !.type_id = e.type_id]
    /\ UNCHANGED <<connVars, notCodec>>

(* The receiver decodes what was encoded, with the type id it came with.   *)
Decode ==
    /\ codec.stage = "encoded"
    /\ codec' = [codec EXCEPT !.stage = "decoded",
                              !.decoded = CodecDecode(codec.encoded, codec.type_id, codec.from)]
    /\ UNCHANGED <<connVars, notCodec>>

CodecNext == Encode \/ Decode

CodecInit ==
    /\ ConnInit
    /\ has_input_deq = FALSE
    /\ middleware = "cats.middleware"
    /\ idle_timeout = 0
    /\ accept = Served
    /\ api = ApiStart
    /\ stream = NoStream
    /\ evt = NoEvt
    /\ srv = ServerStart
    /\ rate = RateStart
    /\ codec \in {c \in CodecStarts :
                    /\ c.hl \in (IF c.payload.kind = "files" THEN HeaderLens(c.payload.files) ELSE {2})
                    /\ c.payload.kind # "files" => c.from = "buff"}
    /\ snd = SendStart
    /\ rdr = ReaderStart
    /\ tmp = FilesStart
    /\ inp = InputStart

SpecCodec == CodecInit /\ [][CodecNext]_vars

(* The payload a files payload is expected back as: a dict of FileInfo.    *)
Expected(p) == IF p.kind = "files" THEN [p EXCEPT !.form = "dict[FileInfo]"] ELSE p

(* C32: a payload that is bytes, a JSON value or a set of files, encoded   *)
(* by Codec.encode and decoded by Codec.decode with the type id returned,  *)
(* comes back the same: for files the same keys, sizes and bytes, from a   *)
(* buffer and from a file.                                                 *)
C32_RoundTrip ==
    /\ codec.stage # "raised"
    /\ codec.stage = "decoded" =>
          /\ codec.decoded.error = "none"
          /\ codec.decoded.payload = Expected(codec.payload)

(* --------------------------- Connection.send ---------------------------- *)
(* randint(a, b): of the numbers a..b the lowest two and the highest are   *)
(* followed.                                                               *)
randint(a, b) == {a, a + 1, b}

(* Connection._get_free_message_id: what it may return.                    *)
_get_free_message_id(pool) == {m \in randint(ID_LOW, ID_HIGH) : m \notin pool}

(* The message ids the peer gives its requests.                            *)
PeerIds == {1, ID_LOW, ID_HIGH}

(* handle_request takes the message id of a request into the pool.         *)
SndRequest(m) ==
    /\ m \notin snd.pool
    /\ snd' = [snd EXCEPT !.pool = @ \cup {m}]
    /\ UNCHANGED <<connVars, notSnd>>

(* handle_request ends and takes the id out.                               *)
SndRequestDone(m) ==
    /\ m \in snd.pool
    /\ snd' = [snd EXCEPT !.pool = @ \ {m}]
    /\ UNCHANGED <<connVars, notSnd>>

(* Connection.send / send_stream without message_id: the response gets a   *)
(* free id and waits for the write lock.                                   *)
SndSend ==
    /\ Len(snd.out) < MaxSends
    /\ \E m \in _get_free_message_id(snd.pool) :
          snd' = [snd EXCEPT !.out = Append(@, [message_id |-> m, stage |-> "waiting"]),
                             !.seen = @ \cup {[message_id |-> m, pool |-> snd.pool]}]
    /\ UNCHANGED <<connVars, notSnd>>

(* send_to_conn enters lock_write when nobody is sending.                  *)
SndWrite(i) ==
    /\ snd.out[i].stage = "waiting"
    /\ \A j \in DOMAIN snd.out : snd.out[j].stage # "writing"
    /\ snd' = [snd EXCEPT !.out[i].stage = "writing"]
    /\ UNCHANGED <<connVars, notSnd>>

(* send_to_conn returns, and send with it.                                 *)
SndDone(i) ==
    /\ snd.out[i].stage = "writing"
    /\ snd' = [snd EXCEPT !.out = [k \in 1..(Len(@) - 1) |-> IF k < i THEN @[k] ELSE @[k + 1]],
                          !.seen = {s \in @ : \E j \in DOMAIN snd.out : j # i /\ snd.out[j].message_id = s.message_id}]
    /\ UNCHANGED <<connVars, notSnd>>

SendNext ==
    \/ \E m \in PeerIds : SndRequest(m)
    \/ \E m \in PeerIds : SndRequestDone(m)
    \/ SndSend
    \/ \E i \in 1..MaxSends : i \in DOMAIN snd.out /\ SndWrite(i)
    \/ \E i \in 1..MaxSends : i \in DOMAIN snd.out /\ SndDone(i)

SendInit ==
    /\ ConnInit
    /\ has_input_deq = FALSE
    /\ middleware = "cats.middleware"
    /\ idle_timeout = 0
    /\ accept = Served
    /\ api = ApiStart
    /\ stream = NoStream
    /\ evt = NoEvt
    /\ srv = ServerStart
    /\ rate = RateStart
    /\ codec = CodecStart
    /\ snd = SendStart
    /\ rdr = ReaderStart
    /\ tmp = FilesStart
    /\ inp = InputStart

SpecSend == SendInit /\ [][SendNext]_vars

(* Every id given to a response lies in 17783..35565 and was not in the    *)
(* pool when it was given.                                                 *)
AllocatedFree ==
    /\ \A i \in DOMAIN snd.out : snd.out[i].message_id \in ID_LOW..ID_HIGH
    /\ \A s \in snd.seen : s.message_id \notin s.pool

(* C33: every message id Connection.send allocates lies in 17783..35565,   *)
(* was not in the in-flight set when allocated, and differs from the id of *)
(* every other outbound message whose sending has not finished.            *)
C33_FreshIds ==
    /\ AllocatedFree
    /\ \A i, j \in DOMAIN snd.out : i # j => snd.out[i].message_id # snd.out[j].message_id

(* The handling of the request of task a is suspended: its handler awaits  *)
(* the answer to request.input(), or a frame of it is being written.       *)
Suspended(a) ==
    /\ tasks[a].kind = "Request"
    /\ \/ tasks[a].pc = "await" /\ tasks[a].fut = "pending"
       \/ tasks[a].pc = "write" /\ tasks[a].todo # <<>>

(* handle_request of task b up to the first suspension of its handling.    *)
Dispatch(b) == HandleNoResponse(b) \/ HandleReturn(b) \/ HandleInput(b) \/ HandleSetSpeed(b)

(* A later Request with another message id than the suspended one.         *)
LaterRequest(a, b) ==
    /\ Suspended(a)
    /\ b > a
    /\ tasks[b].kind = "Request"
    /\ tasks[b].mid # tasks[a].mid

READ_BYTES == 1048576

(* The frames of the peer, all of them well formed: a Request or an        *)
(* InputRequest with data_len payload bytes, a StreamRequest with the      *)
(* sizes of its chunks, and the frames without payload. A files payload    *)
(* holds one file and is not empty.                                        *)
FrameDataLens == {0, 1, MAX_PLAIN_DATA_SIZE, MAX_PLAIN_DATA_SIZE + 1}

ChunkSizes == {1, MAX_PLAIN_DATA_SIZE + 1}

InFrame(kind, data_type, data_len, chunks) ==
    [kind |-> kind, data_type |-> data_type, data_len |-> data_len, chunks |-> chunks]

InFrames ==
    {InFrame(k, ty, n, <<>>) : k \in {"Request", "InputRequest"}, ty \in {T_BYTE, T_JSON, T_FILE},
                               n \in FrameDataLens}
    \cup {InFrame("StreamRequest", ty, 0, cs) : ty \in {T_BYTE, T_JSON, T_FILE},
                                                cs \in UNION {[1..n -> ChunkSizes] : n \in 0..2}}
    \cup {InFrame(k, T_BYTE, 0, <<>>) : k \in {"DownloadSpeed", "CancelInput", "Ping"}}

WellFormedFrame(fr) == fr.data_type = T_FILE => (fr.data_len > 0 \/ fr.chunks # <<>>)

Queues == UNION {[1..n -> {fr \in InFrames : WellFormedFrame(fr)}] : n \in 1..MaxQueue}

ReaderStarts == {[ReaderStart EXCEPT !.queue = q, !.stage = "type"] : q \in Queues}

(* Connection.start raises exc out of `await self.recv()`.                 *)
RdrRaise(r, exc) == [r EXCEPT !.stage = "raised", !.exc = exc]

(* Connection.start: recv has returned the request,                        *)
(* loop.create_task(self.tick(request)), and the loop goes to the next     *)
(* read.                                                                   *)
CreateTask(r) ==
    [r EXCEPT !.tasks = Append(@, r.pos), !.pos = @ + 1, !.stage = "type", !.left = 0, !.chunk = 0,
              !.data_len = 0]

(* The last byte of the frame has been read.                               *)
Consumed(r) == [r EXCEPT !.consumed = Append(@, r.pos)]

(* BasicRequest.recv_data after its reads: decompress and Codec.decode of  *)
(* a well formed payload.                                                  *)
BasicDecoded(r) == CreateTask(Consumed(r))

(* StreamRequest.recv_data after the terminator: `decode` is assigned for  *)
(* data above MAX_PLAIN_DATA_SIZE and for data that is not files; for      *)
(* files up to MAX_PLAIN_DATA_SIZE the name is unbound at Codec.decode.    *)
StreamDecoded(r) ==
    LET fr == r.queue[r.pos]
    IN  IF r.data_len > MAX_PLAIN_DATA_SIZE
        THEN IF fr.data_type # T_FILE THEN RdrRaise(Consumed(r), "ProtocolError")
             ELSE CreateTask(Consumed(r))
        ELSE IF fr.data_type # T_FILE THEN CreateTask(Consumed(r))
        ELSE RdrRaise(Consumed(r), "UnboundLocalError")

(* Connection.recv: the byte with the message type is read.                *)
RdrType ==
    /\ rdr.stage = "type"
    /\ rdr.pos <= Len(rdr.queue)
    /\ rdr' = [rdr EXCEPT !.stage = "head", !.started = Append(@, rdr.pos)]
    /\ UNCHANGED <<connVars, notRdr>>

(* recv_from_conn: read_bytes(cls.struct.size). The frames without payload *)
(* are complete with it.                                                   *)
RdrHead ==
    /\ rdr.stage = "head"
    /\ rdr' = IF rdr.queue[rdr.pos].kind \in {"DownloadSpeed", "CancelInput", "Ping"}
              THEN CreateTask(Consumed(rdr))
              ELSE [rdr EXCEPT !.stage = "headers"]
    /\ UNCHANGED <<connVars, notRdr>>

(* recv_from_conn: the headers are read and recv_data starts. A Request    *)
(* above MAX_PLAIN_DATA_SIZE that is not files raises ProtocolError, with  *)
(* its payload unread.                                                     *)
RdrHeaders ==
    /\ rdr.stage = "headers"
    /\ LET fr == rdr.queue[rdr.pos]
       IN  rdr' = IF fr.kind = "StreamRequest" THEN [rdr EXCEPT !.stage = "chunks"]
                  ELSE IF fr.data_len > MAX_PLAIN_DATA_SIZE /\ fr.data_type # T_FILE
                  THEN RdrRaise(rdr, "ProtocolError")
                  ELSE IF fr.data_len = 0 THEN BasicDecoded(rdr)
                  ELSE [rdr EXCEPT !.stage = "payload", !.left = fr.data_len]
    /\ UNCHANGED <<connVars, notRdr>>

(* BasicRequest.recv_data: read_bytes(min(left, 1 << 20), partial=True),   *)
(* taken as returning all it was asked for.                                *)
RdrPayload ==
    /\ rdr.stage = "payload"
    /\ rdr.queue[rdr.pos].kind # "StreamRequest"
    /\ LET left == rdr.left - Min2(rdr.left, READ_BYTES)
       IN  rdr' = IF left > 0 THEN [rdr EXCEPT !.left = left] ELSE BasicDecoded([rdr EXCEPT !.left = 0])
    /\ UNCHANGED <<connVars, notRdr>>

(* StreamRequest.recv_data: the four bytes of a chunk size are read; zero  *)
(* ends the loop.                                                          *)
RdrChunkSize ==
    /\ rdr.stage = "chunks"
    /\ LET fr == rdr.queue[rdr.pos]
       IN  rdr' = IF rdr.chunk < Len(fr.chunks)
                  THEN [rdr EXCEPT !.stage = "payload", !.chunk = @ + 1, !.left = fr.chunks[rdr.chunk + 1]]
                  ELSE StreamDecoded(rdr)
    /\ UNCHANGED <<connVars, notRdr>>

(* _recv_large_chunk / _recv_small_chunk: read_bytes(left, partial=True),  *)
(* the chunk is decompressed and written to the buffer file.               *)
RdrChunk ==
    /\ rdr.stage = "payload"
    /\ rdr.queue[rdr.pos].kind = "StreamRequest"
    /\ rdr' = [rdr EXCEPT !.stage = "chunks", !.data_len = @ + rdr.left, !.left = 0]
    /\ UNCHANGED <<connVars, notRdr>>

ReaderNext == RdrType \/ RdrHead \/ RdrHeaders \/ RdrPayload \/ RdrChunkSize \/ RdrChunk

ReaderInit ==
    /\ ConnInit
    /\ has_input_deq = FALSE
    /\ middleware = "cats.middleware"
    /\ idle_timeout = 0
    /\ accept = Served
    /\ api = ApiStart
    /\ stream = NoStream
    /\ evt = NoEvt
    /\ srv = ServerStart
    /\ rate = RateStart
    /\ codec = CodecStart
    /\ snd = SendStart
    /\ rdr \in ReaderStarts
    /\ tmp = FilesStart
    /\ inp = InputStart

SpecReader == ReaderInit /\ [][ReaderNext]_vars

(* The frames 1..n in their order.                                         *)
UpTo(n) == [i \in 1..n |-> i]

(* The reader starts the frames in arrival order, one at a time: a frame   *)
(* is started only when every frame before it was read to its last byte,   *)
(* and the tasks are created in arrival order, one for a frame at most.    *)
ReadInOrder ==
    /\ rdr.started = UpTo(Len(rdr.started))
    /\ rdr.consumed = UpTo(Len(rdr.consumed))
    /\ Len(rdr.consumed) <= Len(rdr.started) /\ Len(rdr.started) <= Len(rdr.consumed) + 1
    /\ \A i, j \in DOMAIN rdr.tasks : i < j => rdr.tasks[i] < rdr.tasks[j]
    /\ Range(rdr.tasks) \subseteq Range(rdr.consumed)

(* C35: the frames are parsed one at a time in arrival order, frame n + 1  *)
(* is not started before frame n is read in full, and every frame read in  *)
(* full has exactly one task, the tasks being created in arrival order: no *)
(* frame is dropped. A frame the protocol forbids, refused with            *)
(* ProtocolError, is left aside.                                           *)
C35_FramesInOrder ==
    /\ ReadInOrder
    /\ rdr.exc # "ProtocolError" => rdr.tasks = rdr.consumed

(* The handling of the request of task t ends in this step: handle_request *)
(* had taken the message id into the pool and now returns or raises.       *)
HandlingEnds(t) ==
    /\ tasks[t].kind = "Request"
    /\ tasks[t].pc \notin {"failed", "done"}
    /\ tasks'[t].pc \in {"failed", "done"}
    /\ tasks'[t].invoked

(* C36: when the handling of a Request ends, by a return, by an exception  *)
(* of the handler, by a failure while sending, or by CancelledError or     *)
(* StreamClosedError, its message id is no longer in the in-flight set.    *)
C36_IdRemovedAtEnd ==
    [][\A t \in Tasks : HandlingEnds(t) => tasks[t].mid \notin Range(message_pool')]_vars

(* --------------------------- temporary files ---------------------------- *)
(* utils.tmp_file: a new file, named after the variable that holds it.     *)
tmp_file(f, name) == [f EXCEPT !.files = @ \cup {<<f.no, name>>}]

(* Path.unlink(missing_ok=True).                                           *)
unlink(f, name) == [f EXCEPT !.files = @ \ {<<f.no, name>>}]

(* The path ends, with the exception it raises.                            *)
PathEnds(f, exc) == [f EXCEPT !.stage = "ended", !.exc = exc]

(* FileCodec._decode_from_file: every node gets a file from _unpack_file,  *)
(* which the result then owns. When _unpack_file raises ValueError the     *)
(* file it has just made is in no result; FileCodec.decode unlinks the     *)
(* files of the result.                                                    *)
DecodeFromFile(f, outcome) ==
    IF outcome = "ok" THEN [tmp_file(f, "file") EXCEPT !.outputs = @ \cup {<<f.no, "file">>}]
    ELSE IF outcome = "unpack" THEN tmp_file(f, "tmp")
    ELSE f

DecodeOutcomes == {"ok", "header", "unpack"}

(* A frame starts to be received or sent.                                  *)
PathStarts(p) ==
    /\ tmp.stage = "ended"
    /\ tmp.no < MaxPaths
    /\ tmp' = [tmp EXCEPT !.path = p, !.no = @ + 1, !.stage = "start", !.chunks = 0,
                          !.spilled = FALSE, !.exc = "none"]
    /\ UNCHANGED <<connVars, notTmp>>

(* BasicRequest.recv_data above MAX_PLAIN_DATA_SIZE: src and dst are made. *)
RecvBasicStart ==
    /\ tmp.path = "basic" /\ tmp.stage = "start"
    /\ tmp' = [tmp_file(tmp_file(tmp, "src"), "dst") EXCEPT !.stage = "read"]
    /\ UNCHANGED <<connVars, notTmp>>

(* `except Exception: dst.unlink(); raise`, then `finally: src.unlink()`.  *)
RecvBasicExcept(f, exc) == PathEnds(unlink(unlink(f, "dst"), "src"), exc)

(* The reads into src; a read may raise StreamClosedError.                 *)
RecvBasicRead ==
    /\ tmp.path = "basic" /\ tmp.stage = "read"
    /\ \E ok \in BOOLEAN :
          tmp' = IF ok THEN [tmp EXCEPT !.stage = "decompress"]
                 ELSE RecvBasicExcept(tmp, "StreamClosedError")
    /\ UNCHANGED <<connVars, notTmp>>

(* Compressor.decompress_file(src, dst), which may raise.                  *)
RecvBasicDecompress ==
    /\ tmp.path = "basic" /\ tmp.stage = "decompress"
    /\ \E ok \in BOOLEAN :
          tmp' = IF ok THEN [tmp EXCEPT !.stage = "decode"] ELSE RecvBasicExcept(tmp, "ValueError")
    /\ UNCHANGED <<connVars, notTmp>>

(* Codec.decode(dst, ...): on success only the finally clause runs.        *)
RecvBasicDecode ==
    /\ tmp.path = "basic" /\ tmp.stage = "decode"
    /\ \E o \in DecodeOutcomes :
          tmp' = IF o = "ok" THEN PathEnds(unlink(DecodeFromFile(tmp, o), "src"), "none")
                 ELSE RecvBasicExcept(DecodeFromFile(tmp, o), "ValueError")
    /\ UNCHANGED <<connVars, notTmp>>

(* StreamRequest.recv_data: buff is made.                                  *)
RecvStreamStart ==
    /\ tmp.path = "stream" /\ tmp.stage = "start"
    /\ tmp' = [tmp_file(tmp, "buff") EXCEPT !.stage = "chunks"]
    /\ UNCHANGED <<connVars, notTmp>>

(* A chunk: _recv_small_chunk makes no file; _recv_large_chunk makes part  *)
(* and dst and unlinks both in its finally clause. When the read raises,   *)
(* the finally clause of recv_data unlinks buff.                           *)
RecvStreamChunk ==
    /\ tmp.path = "stream" /\ tmp.stage = "chunks"
    /\ tmp.chunks < MaxChunks
    /\ \E large, ok \in BOOLEAN :
          LET made == IF large THEN tmp_file(tmp_file(tmp, "part"), "dst") ELSE tmp
              left == IF large THEN unlink(unlink(made, "part"), "dst") ELSE made
          IN  tmp' = IF ok THEN [left EXCEPT !.chunks = @ + 1, !.spilled = @ \/ large]
                     ELSE PathEnds(unlink(left, "buff"), "StreamClosedError")
    /\ UNCHANGED <<connVars, notTmp>>

(* The terminator: data above MAX_PLAIN_DATA_SIZE is decoded from buff,    *)
(* other data from its bytes; `finally: buff.unlink()`.                    *)
RecvStreamEnd ==
    /\ tmp.path = "stream" /\ tmp.stage = "chunks"
    /\ \E o \in DecodeOutcomes :
          /\ ~tmp.spilled => o \in {"ok", "header"}
          /\ LET decoded == IF tmp.spilled THEN DecodeFromFile(tmp, o) ELSE tmp
             IN  tmp' = PathEnds(unlink(decoded, "buff"), IF o = "ok" THEN "none" ELSE "ValueError")
    /\ UNCHANGED <<connVars, notTmp>>

(* BasicResponse._encode_data of a files payload: Codec.encode returns the *)
(* file FileCodec.encode has made, or raises with that file unlinked.      *)
SendEncode ==
    /\ tmp.path = "send" /\ tmp.stage = "start"
    /\ \E ok \in BOOLEAN :
          tmp' = IF ok THEN [tmp_file(tmp, "buff") EXCEPT !.stage = "compress"]
                 ELSE PathEnds(unlink(tmp_file(tmp, "buff"), "buff"), "TypeError")
    /\ UNCHANGED <<connVars, notTmp>>

(* `self.data, buff = tmp_file(), self.data`, then                         *)
(* Compressor.compress_file(buff, self.data, ...), which may raise and     *)
(* which may or may not unlink the file it reads. _encode_data is called   *)
(* before the try of send_to_conn.                                         *)
SendCompress ==
    /\ tmp.path = "send" /\ tmp.stage = "compress"
    /\ \E ok, removes \in BOOLEAN :
          LET made == tmp_file(tmp, "data")
              left == IF removes THEN unlink(made, "buff") ELSE made
          IN  tmp' = IF ok THEN [left EXCEPT !.stage = "write"] ELSE PathEnds(left, "ValueError")
    /\ UNCHANGED <<connVars, notTmp>>

(* send_to_conn: the writes under lock_write, which may raise, and         *)
(* `finally: self.data.unlink()`.                                          *)
SendWrite ==
    /\ tmp.path = "send" /\ tmp.stage = "write"
    /\ \E ok \in BOOLEAN :
          tmp' = PathEnds(unlink(tmp, "data"), IF ok THEN "none" ELSE "StreamClosedError")
    /\ UNCHANGED <<connVars, notTmp>>

FilesNext ==
    \/ \E p \in {"basic", "stream", "send"} : PathStarts(p)
    \/ RecvBasicStart
    \/ RecvBasicRead
    \/ RecvBasicDecompress
    \/ RecvBasicDecode
    \/ RecvStreamStart
    \/ RecvStreamChunk
    \/ RecvStreamEnd
    \/ SendEncode
    \/ SendCompress
    \/ SendWrite

FilesInit ==
    /\ ConnInit
    /\ has_input_deq = FALSE
    /\ middleware = "cats.middleware"
    /\ idle_timeout = 0
    /\ accept = Served
    /\ api = ApiStart
    /\ stream = NoStream
    /\ evt = NoEvt
    /\ srv = ServerStart
    /\ rate = RateStart
    /\ codec = CodecStart
    /\ snd = SendStart
    /\ rdr = ReaderStart
    /\ tmp = FilesStart
    /\ inp = InputStart

SpecFiles == FilesInit /\ [][FilesNext]_vars

(* The temporary files of the path that exist and belong to no decoded     *)
(* files payload.                                                          *)
Leftover == {f \in tmp.files : f[1] = tmp.no /\ f \notin tmp.outputs}

(* C37: when the receive path or the send path of a frame has ended, with  *)
(* or without an exception, every temporary file it made is unlinked,      *)
(* but for the files of a files payload that was decoded.                  *)
C37_TempFilesUnlinked == tmp.stage = "ended" => Leftover = {}

(* ---------------------------- request.input ----------------------------- *)
(* The timeouts given to request.input(): none, that is app.input_timeout  *)
(* or 0, and one second.                                                   *)
Timeouts == {0, 1}

(* Input.cancel of the Input e: with a timer, `self.timer.done()` raises   *)
(* AttributeError, a TimerHandle having no done(), and nothing is done;    *)
(* without one the future is cancelled and input_deq.pop(message_id) takes *)
(* out whatever Input is under the message id.                             *)
InputCancel(i, e) ==
    IF e.timer THEN i
    ELSE [i EXCEPT !.deq = {x \in @ : x.mid # e.mid},
                   !.fut = [c \in DOMAIN @ |-> IF c = e.call /\ @[c] = "pending" THEN "cancelled" ELSE @[c]]]

(* BaseRequest.input of the request with message id m: the limit check,    *)
(* which may cancel the Input of the smallest message id, then the new     *)
(* Input with its timer, then the test whether m has an Input already.     *)
Input(m, bypass_limit, bypass_count, timeout) ==
    /\ Len(inp.fut) < MaxInputs
    /\ LET call == Len(inp.fut) + 1
           amount == Cardinality({e \in inp.deq : ~e.bypass_count})
           evict == ~bypass_limit /\ amount > INPUT_LIMIT
           victim == CHOOSE e \in inp.deq : \A x \in inp.deq : e.mid <= x.mid
           i1 == IF evict THEN InputCancel(inp, victim) ELSE inp
           new == [mid |-> m, call |-> call, timer |-> (timeout > 0), bypass_count |-> bypass_count]
           op == [op |-> "input", mid |-> m, call |-> call, outcome |-> "pending",
                  evicted |-> IF evict /\ ~victim.timer THEN victim.call ELSE 0]
       IN  inp' = IF evict /\ victim.timer
                  THEN [inp EXCEPT !.fut = Append(@, "failed"),
                                   !.last = [op EXCEPT !.outcome = "AttributeError"]]
                  ELSE IF m \in {e.mid : e \in i1.deq}
                  THEN [i1 EXCEPT !.fut = Append(@, "rejected"),
                                  !.armed = IF timeout > 0 THEN @ \cup {call} ELSE @,
                                  !.last = [op EXCEPT !.outcome = "ProtocolError"]]
                  ELSE [i1 EXCEPT !.deq = @ \cup {new},
                                  !.fut = Append(@, "pending"),
                                  !.armed = IF timeout > 0 THEN @ \cup {call} ELSE @,
                                  !.last = op]
    /\ UNCHANGED <<connVars, notInp>>

(* The timer of a call fires: loop.call_later(timeout, self.cancel).       *)
TimerFires(c) ==
    /\ c \in inp.armed
    /\ LET e == [mid |-> 0, call |-> c, timer |-> TRUE, bypass_count |-> FALSE]
       IN  inp' = [InputCancel(inp, e) EXCEPT
                      !.armed = @ \ {c},
                      !.last = [op |-> "timer", mid |-> 0, call |-> c, outcome |-> "AttributeError",
                                evicted |-> 0]]
    /\ UNCHANGED <<connVars, notInp>>

(* Connection.handle_input_answer for an InputRequest with message id m:   *)
(* the future is looked for in conn.input_queue, which request.input()     *)
(* never fills: ProtocolError, and input_deq is not touched.               *)
InputAnswer(m) ==
    /\ inp' = [inp EXCEPT !.last = [op |-> "answer", mid |-> m, call |-> 0, outcome |-> "ProtocolError",
                                    evicted |-> 0]]
    /\ UNCHANGED <<connVars, notInp>>

(* Connection.tick for a CancelInput with message id m: ProtocolError      *)
(* ('Unsupported request').                                                *)
InputCancelled(m) ==
    /\ inp' = [inp EXCEPT !.last = [op |-> "cancel", mid |-> m, call |-> 0, outcome |-> "ProtocolError",
                                    evicted |-> 0]]
    /\ UNCHANGED <<connVars, notInp>>

InputNext ==
    \/ \E m \in MsgIds, bl, bc \in BOOLEAN, to \in Timeouts : Input(m, bl, bc, to)
    \/ \E c \in 1..MaxInputs : TimerFires(c)
    \/ \E m \in MsgIds : InputAnswer(m)
    \/ \E m \in MsgIds : InputCancelled(m)

InputInit ==
    /\ ConnInit
    /\ has_input_deq = FALSE
    /\ middleware = "cats.middleware"
    /\ idle_timeout = 0
    /\ accept = Served
    /\ api = ApiStart
    /\ stream = NoStream
    /\ evt = NoEvt
    /\ srv = ServerStart
    /\ rate = RateStart
    /\ codec = CodecStart
    /\ snd = SendStart
    /\ rdr = ReaderStart
    /\ tmp = FilesStart
    /\ inp = InputStart

SpecInput == InputInit /\ [][InputNext]_vars

(* The Input e is taken out of input_deq, or its future is cancelled, in   *)
(* this step.                                                              *)
Removed(e) ==
    /\ e \in inp.deq
    /\ e \notin inp'.deq \/ (inp.fut[e.call] = "pending" /\ inp'.fut[e.call] # "pending")

(* What may take e out: its answer, its timer, a CancelInput for its       *)
(* message id, or the limit check that picked it.                          *)
RemovedByItsOwn(e) ==
    \/ inp'.last.op = "answer" /\ inp'.last.mid = e.mid
    \/ inp'.last.op = "timer" /\ inp'.last.call = e.call
    \/ inp'.last.op = "cancel" /\ inp'.last.mid = e.mid
    \/ inp'.last.op = "input" /\ inp'.last.evicted = e.call

(* A pending Input is removed or cancelled by nothing but its own answer,  *)
(* timeout, CancelInput or eviction.                                       *)
OnlyOwnRemoval == [][\A e \in inp.deq : Removed(e) => RemovedByItsOwn(e)]_vars

LiveInit == Init /\ has_input_deq

SpecLive == LiveInit /\ [][Next]_vars /\ WF_vars(Next)

(* The handler of task t is suspended in request.input(): its future is    *)
(* neither completed nor cancelled.                                        *)
InputPending(t) == tasks[t].pc = "await" /\ tasks[t].fut = "pending"

C40_NoHandlerAfterClose ==
    [][closed => \A t \in Tasks :
                    /\ tasks'[t].invoked => tasks[t].invoked
                    /\ tasks[t].pc = "new" => Len(message_pool') <= Len(message_pool)]_vars

====
